---- MODULE Spec2Model ----
(***************************************************************************)
(* Model of the vector scene editing engine of SVG-ORA-Studio:             *)
(*   src/components/SvgPreview.tsx  (SvgPreview, TransformOverlay)         *)
(*   src/unnamed/part_000           (EditorTools)                          *)
(*                                                                         *)
(* A document text is modelled by the tree it serializes: a sequence of    *)
(* paintable nodes in paint order.  Two texts are equal exactly when their *)
(* trees are equal (the serializer is svg.outerHTML throughout).           *)
(*                                                                         *)
(* Units.  Numbers are integers: rotation in degrees, scale in thousandths *)
(* (toFixed(3)), skew in tenths of a degree (toFixed(1)), positions and    *)
(* pointer offsets in user units (pointer offsets already divided by the   *)
(* zoom factor).  The editor panel is taken to be visible (showEditor).    *)
(***************************************************************************)
EXTENDS Integers, Sequences, FiniteSets, TLC

\* ------------------------------------------------------------------ bounds
\* Longest history log explored (handleUpdate is not taken beyond it) when the
\* history manager is examined, and when the transform channels are.
MaxHist == 3
MaxHistT == 2

\* scale(1) in thousandths: the unit of toFixed(3).
\* Scene runs: the longest log, the last clock value, the pending timers.
MaxHistS == 3
MaxHistN == 2
MaxClock == 1
MaxTimers == 1
\* Clones are placed no further than this from the origin.
MaxPos == 30
\* The generation service is called at most this many times.
MaxRequests == 3

ScaleOne == 1000

None == "none"

\* ------------------------------------------------------------ JS arithmetic
Abs(n) == IF n < 0 THEN -n ELSE n

\* JavaScript's % : the result takes the sign of the dividend.
JsRem(a, b) == IF a >= 0 THEN a % b ELSE -((-a) % b)

\* ------------------------------------------------------- transform strings
Fn(name, args) == [fn |-> name, args |-> args]

\* A drop-shadow function as the style text holds it: the lengths, and the colour
\* either in the form rgba(r,g,b,a) that updateStyle writes for a hex colour with
\* an opacity, or as a hex colour.
DropShadow(x, y, blur, color, opacity, form) ==
    [fn |-> "drop-shadow", args |-> << x, y, blur >>, color |-> color,
     opacity |-> opacity, form |-> form]

\* The function names in whose text a pattern that starts with name( matches: the
\* patterns are not anchored, so rotate\(...deg\) also matches inside
\* hue-rotate(90deg) and scale\(...\) inside grayscale(0.5).
Matching(name) ==
    CASE name = "rotate" -> {"rotate", "hue-rotate"}
      [] name = "scale" -> {"scale", "grayscale"}
      [] OTHER -> {name}

\* Index of the first function of a style text that the pattern for name matches,
\* 0 if none (String.prototype.match returns the first match).
RECURSIVE FirstFnFrom(_, _, _)
FirstFnFrom(tr, name, i) ==
    IF i > Len(tr) THEN 0
    ELSE IF tr[i].fn \in Matching(name) THEN i
    ELSE FirstFnFrom(tr, name, i + 1)

FirstFn(tr, name) == FirstFnFrom(tr, name, 1)

\* A faulty serialization: scale written before rotate.
TransformStrSwapped(t) ==
    << Fn("scale", <<t.scaleX, t.scaleY>>),
       Fn("rotate", <<t.rotate>>),
       Fn("skewX", <<t.skewX>>),
       Fn("skewY", <<t.skewY>>) >>

\* The transform string handleMove builds.
TransformStr(t) ==
    << Fn("rotate", <<t.rotate>>),
       Fn("scale", <<t.scaleX, t.scaleY>>),
       Fn("skewX", <<t.skewX>>),
       Fn("skewY", <<t.skewY>>) >>

\* The transform declaration updateStyle builds from the panel state.
PanelTransformStr(p) ==
    LET s == p.scale
        scaleX == IF p.flipX THEN -s ELSE s
        scaleY == IF p.flipY THEN -s ELSE s
    IN  << Fn("rotate", <<p.rotate>>), Fn("scale", <<scaleX, scaleY>>) >>

\* The overlay's parse of a style string into its transform state.
ParseTransform(tr) ==
    LET r  == FirstFn(tr, "rotate")
        s  == FirstFn(tr, "scale")
        kx == FirstFn(tr, "skewX")
        ky == FirstFn(tr, "skewY")
    IN  [ rotate |-> IF r > 0 THEN tr[r].args[1] ELSE 0,
          scaleX |-> IF s > 0 THEN tr[s].args[1] ELSE ScaleOne,
          scaleY |-> IF s > 0 THEN tr[s].args[Len(tr[s].args)] ELSE ScaleOne,
          skewX  |-> IF kx > 0 THEN tr[kx].args[1] ELSE 0,
          skewY  |-> IF ky > 0 THEN tr[ky].args[1] ELSE 0 ]

DefaultTransform ==
    [rotate |-> 0, scaleX |-> ScaleOne, scaleY |-> ScaleOne, skewX |-> 0, skewY |-> 0]

\* ---------------------------------------------------------------- documents
\* A fill value: none given, a colour, or a reference url(#id).
NoPaint == [k |-> "none", v |-> ""]

Color(c) == [k |-> "color", v |-> c]

Url(id) == [k |-> "url", v |-> id]

\* The paint and typography properties, other than fill, that the model keeps; a
\* property that is not set reads "".
PaintKeys == {"stroke", "stroke-width", "stroke-dasharray", "font-size"}

NoPaints == [k \in PaintKeys |-> ""]

\* A paintable element: id ("" when the attribute is missing or empty), tag,
\* position (x/y, or cx/cy), size, the transform list of its style, the fill
\* attribute and the fill of its inline style, and the number of translate(10, 10)
\* calls in its transform attribute, and the vertices of its points attribute when
\* addShape computed them, the functions of the filter declaration of its style,
\* whether that declaration stands before the transform declaration, and its paint
\* attributes and the paint properties of its inline style.
Node(id, tag, px, py, w, h, tr) ==
    [id |-> id, tag |-> tag, px |-> px, py |-> py, w |-> w, h |-> h, tr |-> tr,
     fill |-> NoPaint, styleFill |-> NoPaint, shift |-> 0, points |-> <<>>,
     filter |-> <<>>, filterFirst |-> FALSE, attrs |-> NoPaints, styles |-> NoPaints,
     hasStyle |-> tr # <<>>]

\* The functions of an element's style text in the order of the text: those of the
\* transform declaration and those of the filter declaration.
StyleFns(n) == IF n.filterFirst THEN n.filter \o n.tr ELSE n.tr \o n.filter

\* A width or height attribute of the root: missing, a percentage, or a number.
NoDim == [u |-> "none", v |-> 0]

Pct(n) == [u |-> "pct", v |-> n]

Px(n) == [u |-> "px", v |-> n]

\* The attributes of the root element that normalizeSvg reads: whether xmlns is
\* set, the numbers of the viewBox (<< >> when missing), whether the attribute
\* separates them by commas ("0,0,100,100") rather than single spaces, width and
\* height.
Root(xmlns, viewBox, width, height) ==
    [xmlns |-> xmlns, viewBox |-> viewBox, commas |-> FALSE, width |-> width,
     height |-> height]

\* The same root with the numbers of its viewBox separated by commas.
Commas(root) == [root EXCEPT !.commas = TRUE]

\* The fallback viewBox '0 0 512 512'.
FallbackBox == << 0, 0, 512, 512 >>

\* A text that parses and has an svg element: its root attributes, whether it has
\* a defs element, how many paintable nodes precede that element, the gradients in
\* it, and the paintable nodes in document order.
RawSvg(root, nodes) ==
    [kind |-> "svg", root |-> root, hasDefs |-> FALSE, defsAt |-> 0, grads |-> <<>>,
     nodes |-> nodes]

\* A text with namespace, viewBox, width and height in place.
Svg(nodes) == RawSvg(Root(TRUE, FallbackBox, Px(512), Px(512)), nodes)

\* A text that is not a document: kind says why.
NoDoc(kind) ==
    [kind |-> kind, root |-> Root(FALSE, << >>, NoDim, NoDim), hasDefs |-> FALSE,
     defsAt |-> 0, grads |-> <<>>, nodes |-> <<>>]

\* useState(''): the text before any document is loaded.
EmptyText == NoDoc("empty")

\* What an array read outside 0..length-1 yields.
Undefined == NoDoc("undefined")

\* The text of document d with a tag left open: the XML parser rejects it (the
\* parsed document holds a parsererror).
Broken(d) == [d EXCEPT !.kind = "malformed"]

\* A well-formed text without an svg element.
NoSvgText == NoDoc("nosvg")

\* h[i] for a JavaScript array h (0-based).
JsIndex(h, i) == IF 0 <= i /\ i < Len(h) THEN h[i + 1] ELSE Undefined

\* Generated graphics handed to the editor (data.content, already well-formed,
\* every node with an id).
DocA == Svg(<< Node("n1", "rect", 0, 0, 20, 20, <<>>) >>)

\* A circle whose style lists scale before rotate (texts arrive from the generator
\* with any transform list).
DocB == Svg(<< Node("n1", "circle", 10, 10, 20, 20,
                    << Fn("scale", <<2000>>), Fn("rotate", <<90>>) >>) >>)

\* A path that carries the transform a handle drag with the modifier key left.
DocC == Svg(<< Node("n1", "path", 0, 0, 20, 20,
                    << Fn("rotate", <<45>>), Fn("scale", <<-ScaleOne, 2 * ScaleOne>>),
                       Fn("skewX", <<50>>), Fn("skewY", <<-50>>) >>) >>)

\* doc.getElementById(id): the index of the node, 0 when there is none.
RECURSIVE IndexOfFrom(_, _, _)
IndexOfFrom(nodes, id, i) ==
    IF i > Len(nodes) THEN 0
    ELSE IF nodes[i].id = id THEN i
    ELSE IndexOfFrom(nodes, id, i + 1)

GetElementById(doc, id) ==
    IF id = None \/ id = "" THEN 0 ELSE IndexOfFrom(doc.nodes, id, 1)

HasNode(doc, id) == GetElementById(doc, id) > 0

NodeOf(doc, id) == doc.nodes[GetElementById(doc, id)]

\* The id the layer list uses for the element at position i: layer.id, or
\* `layer-${index}` in the reversed list for an element without id.
LayerId(doc, i) ==
    IF doc.nodes[i].id = "" THEN "layer-" \o ToString(Len(doc.nodes) - i)
    ELSE doc.nodes[i].id

\* The id reserved for the background rectangle.
Background == "editor-background"

\* The rows of the layer list (the background rectangle has none).
LayerRows(doc) ==
    IF doc.kind = "svg"
    THEN {LayerId(doc, i) : i \in 1..Len(doc.nodes)} \ {Background}
    ELSE {}

\* The document with node number i replaced.
WithNode(doc, i, n) == [doc EXCEPT !.nodes[i] = n]

\* el.remove()
RemoveNode(doc, i) ==
    [doc EXCEPT !.nodes = SubSeq(doc.nodes, 1, i - 1) \o SubSeq(doc.nodes, i + 1, Len(doc.nodes)),
                !.defsAt = IF i <= @ THEN @ - 1 ELSE @]

\* ------------------------------------------------------------ normalization
\* Date.now() as text (the model writes the clock value in decimal).
Stamp(t) == ToString(t)

\* A faulty id test: every element is given an id.
NeedsIdAlways(id) == TRUE

\* if (!el.id)
NeedsId(id) == id = ""

\* `${el.tagName.toLowerCase()}_${index}_${Date.now().toString(36).slice(-5)}`
NormalId(tag, index, t) == tag \o "_" \o ToString(index) \o "_" \o Stamp(t)

\* width === '100%' is read as no width; so for height.
ReadDim(d) == IF d = Pct(100) THEN NoDim ELSE d

\* width && height && !width.includes('%') && !height.includes('%')
HasPixels(w, h) == w.u = "px" /\ h.u = "px"

\* The viewBox normalizeSvg leaves on the root.
NormalViewBox(root) ==
    IF root.viewBox # << >> THEN root.viewBox
    ELSE IF HasPixels(ReadDim(root.width), ReadDim(root.height))
         THEN << 0, 0, root.width.v, root.height.v >>
         ELSE FallbackBox

\* The width (part = 3) or height (part = 4) normalizeSvg leaves on the root:
\* taken from the viewBox when the attribute is missing or a percentage.
NormalDim(attr, box, part) ==
    IF Len(box) >= 4 /\ ReadDim(attr).u # "px" THEN Px(box[part]) ELSE attr

NormalRoot(root) ==
    LET box == NormalViewBox(root)
    IN  [Root(TRUE, box, NormalDim(root.width, box, 3), NormalDim(root.height, box, 4))
            EXCEPT !.commas = root.commas]

\* The elements with the ids normalizeSvg leaves on them at time t.
NormalNodes(nodes, t) ==
    [i \in 1..Len(nodes) |->
        IF NeedsId(nodes[i].id)
        THEN [nodes[i] EXCEPT !.id = NormalId(nodes[i].tag, i - 1, t)]
        ELSE nodes[i]]

\* A faulty fallback: a text that fails to parse comes back empty.
ParseFailureEmpty(text) == EmptyText

\* if (doc.querySelector('parsererror')) return svgString; if (!svg) return svgString
ParseFailure(text) == text

\* normalizeSvg(svgString) called at time t.
NormalizeSvg(text, t) ==
    IF text.kind = "empty" THEN EmptyText
    ELSE IF text.kind # "svg" THEN ParseFailure(text)
    ELSE [text EXCEPT !.root = NormalRoot(text.root), !.nodes = NormalNodes(text.nodes, t)]

\* -------------------------------------------------------------------- inputs
\* Values the property panel's controls deliver to updateStyle.
PanelRotate == {90}
PanelScale == {2 * ScaleOne}
PanelPos == {5}
PanelHue == {0, 90}
PanelGray == {0, ScaleOne \div 2}
PanelBlur == {0, 3}
PanelSepia == {0, ScaleOne \div 2}
PanelSaturate == {ScaleOne, 2 * ScaleOne}
PanelStroke == {"#00ff00", "none"}
PanelDash == {"4 4", "none"}
PanelWidth == {"2"}
PanelFont == {"24"}
PanelFill == {"#ff0000"}

\* The keys of updateStyle's paint branch and of its filter branch that the model
\* keeps.
PaintProps == PaintKeys \cup {"fill"}

FilterKeys == {"blur", "grayscale", "sepia", "invert", "saturate", "hueRotate"}

\* The nine handles of the overlay.
Handles == {"rotate", "nw", "n", "ne", "w", "e", "sw", "s", "se"}

TransformKeys == {"rotate", "scale", "flipX", "flipY"}

\* Pointer offsets of a move event from the pointer-down position (dx and dy), and
\* the angle the pointer has swept around the box centre (rotate handle).
Offsets == {10}
Angles == {-135, 0}

\* What a run explores: the graphics that can arrive, the handles grabbed, the
\* panel keys edited, whether the modifier key is held, and the longest log.
\* interleave: whether key presses and arriving graphics are explored between the
\* pointer-down and the pointer-up of a gesture.  reload: whether a graphic arrives
\* again once one is loaded.
HistoryProfile ==
    [docs |-> {DocA}, handles |-> {"se"}, keys |-> {"x", "rotate"},
     skew |-> {FALSE}, interleave |-> TRUE, reload |-> TRUE, maxHist |-> MaxHist]

TransformProfile ==
    [docs |-> {DocB, DocC}, handles |-> Handles, keys |-> TransformKeys \cup {"x", "y"},
     skew |-> BOOLEAN, interleave |-> FALSE, reload |-> TRUE, maxHist |-> MaxHistT]

\* The inputs explored when repeated flips are examined: one circle, the flip and
\* rotate controls, a log long enough for two edits in a row.
FlipProfile ==
    [docs |-> {DocB}, handles |-> {"se"}, keys |-> {"flipX", "flipY", "rotate"},
     skew |-> {FALSE}, interleave |-> FALSE, reload |-> TRUE, maxHist |-> MaxHist]

\* The tags handleMouseDown starts a drag on.
Movable == {"text", "rect", "image", "circle", "ellipse"}

\* A generated graphic with one node of the given tag, and the graphics explored
\* when the direct-move gesture is examined: one per movable tag, a polygon, a path.
TagDoc(tag) == Svg(<< Node("n1", tag, 0, 0, 20, 20, <<>>) >>)

MoveProfile ==
    [docs |-> {TagDoc(t) : t \in Movable \cup {"polygon", "path"}}, handles |-> {"se"},
     keys |-> {"x"}, skew |-> {FALSE}, interleave |-> FALSE, reload |-> TRUE,
     maxHist |-> MaxHistT]

\* The types of the shape buttons.
ShapeTypes ==
    {"rect", "circle", "triangle", "text", "ellipse", "star", "heart", "arrow", "bubble"}

\* Texts handed to normalizeSvg: elements without ids and a bare root; a repeated
\* id under a root with percentage sizes; pixel sizes without a viewBox and a mix
\* of ids; a viewBox of three numbers; texts that fail to parse; a text without svg.
RawBare ==
    RawSvg(Root(FALSE, << >>, NoDim, NoDim),
           << Node("", "rect", 0, 0, 20, 20, <<>>), Node("", "circle", 10, 10, 20, 20, <<>>) >>)

RawRepeated ==
    RawSvg(Root(TRUE, << 0, 0, 100, 50 >>, Pct(100), Pct(50)),
           << Node("a", "rect", 0, 0, 20, 20, <<>>), Node("a", "path", 0, 0, 20, 20, <<>>) >>)

RawPixels ==
    RawSvg(Root(TRUE, << >>, Px(200), Px(100)),
           << Node("n1", "rect", 0, 0, 20, 20, <<>>), Node("", "rect", 5, 5, 20, 20, <<>>) >>)

RawShortBox ==
    RawSvg(Root(FALSE, << 0, 0, 100 >>, NoDim, Pct(100)),
           << Node("", "text", 0, 0, 20, 20, <<>>) >>)

NormalizeProfile ==
    [docs |-> {DocA, RawBare, RawRepeated, RawPixels, RawShortBox, Broken(RawBare),
               Broken(DocA), NoSvgText},
     typed |-> {RawBare, Broken(DocA)},
     handles |-> {"se"}, keys |-> {"x"}, skew |-> {FALSE}, interleave |-> FALSE,
     reload |-> TRUE, maxHist |-> MaxHistN, maxClock |-> MaxClock,
     maxTimers |-> MaxTimers]

\* A generated graphic with three layers, for the operations on layers.
DocS ==
    Svg(<< Node("n1", "rect", 0, 0, 20, 20, <<>>), Node("n2", "path", 0, 0, 20, 20, <<>>),
           Node("n3", "circle", 10, 10, 20, 20, <<>>) >>)

EditProfile ==
    [docs |-> {DocS}, handles |-> {"se"}, keys |-> {"x"}, skew |-> {FALSE},
     interleave |-> FALSE, reload |-> FALSE, maxHist |-> MaxHistN,
     maxClock |-> MaxClock, maxTimers |-> MaxTimers]

\* Repeated pastes: a graphic with a rect and a path, and a longer log.
DocP ==
    Svg(<< Node("n1", "rect", 0, 0, 20, 20, <<>>), Node("n2", "path", 0, 0, 20, 20, <<>>) >>)

PasteProfile ==
    [docs |-> {DocP}, handles |-> {"se"}, keys |-> {"x"}, skew |-> {FALSE},
     interleave |-> FALSE, reload |-> FALSE, maxHist |-> MaxHistS,
     maxClock |-> MaxClock, maxTimers |-> MaxTimers]

\* The shapes added and the colours picked when content is created.
CreateProfile ==
    [docs |-> {DocA}, shapes |-> {"rect", "star"}, colors |-> {"#ff0000", "#0000ff"},
     handles |-> {"se"}, keys |-> {"x"}, skew |-> {FALSE}, interleave |-> FALSE,
     reload |-> FALSE, maxHist |-> MaxHistS, maxClock |-> MaxClock,
     maxTimers |-> MaxTimers]

\* The alignments of the layers tab.
Alignments == {"left", "center", "right", "top", "middle", "bottom"}

\* A 100 x 60 canvas with a rect of width 20 at x = 50, an image, a circle and a
\* text, and the same graphic with the viewBox written "0,0,100,60".
DocAlign ==
    RawSvg(Root(TRUE, << 0, 0, 100, 60 >>, Px(100), Px(60)),
           << Node("n1", "rect", 50, 10, 20, 20, <<>>),
              Node("n2", "image", 10, 30, 40, 20, <<>>),
              Node("n3", "circle", 30, 30, 20, 20, <<>>),
              Node("n4", "text", 10, 50, 0, 10, <<>>) >>)

DocCommas == [DocAlign EXCEPT !.root = Commas(@)]

\* The inputs explored when alignment and the generated shapes are examined.
ArrangeProfile ==
    [docs |-> {DocAlign, DocCommas}, shapes |-> {"star", "circle"}, aligns |-> Alignments,
     handles |-> {"se"}, keys |-> {"x"}, skew |-> {FALSE}, interleave |-> FALSE,
     reload |-> FALSE, maxHist |-> MaxHistN, maxClock |-> MaxClock,
     maxTimers |-> MaxTimers]

\* A circle of radius 10 around (30, 30) and an ellipse of radii 15 and 5 around
\* (40, 20) (w and h hold the diameters) on a canvas of 100 by 60.
DocRound ==
    RawSvg(Root(TRUE, << 0, 0, 100, 60 >>, Px(100), Px(60)),
           << Node("n1", "circle", 30, 30, 20, 20, <<>>),
              Node("n2", "ellipse", 40, 20, 30, 10, <<>>) >>)

RoundProfile ==
    [docs |-> {DocRound}, shapes |-> {"circle"}, aligns |-> Alignments,
     handles |-> {"se"}, keys |-> {"x"}, skew |-> {FALSE}, interleave |-> FALSE,
     reload |-> FALSE, maxHist |-> MaxHistN, maxClock |-> MaxClock,
     maxTimers |-> MaxTimers]

\* A graphic saved with a background rectangle in place, and the inputs explored
\* when the background is examined.
DocBg ==
    Svg(<< [Node(Background, "rect", -1000, -1000, 2512, 2512, <<>>)
               EXCEPT !.fill = Color("#ffffff")],
           Node("n1", "rect", 0, 0, 20, 20, <<>>),
           Node("n2", "path", 0, 0, 20, 20, <<>>) >>)

CanvasProfile ==
    [docs |-> {DocP, DocBg}, shapes |-> {"rect"}, colors |-> {"#ff0000"}, sides |-> {200},
     handles |-> {"se"}, keys |-> {"x"}, skew |-> {FALSE},
     interleave |-> FALSE, reload |-> FALSE, maxHist |-> MaxHistN,
     maxClock |-> MaxClock, maxTimers |-> MaxTimers]

\* A rect whose fill, stroke and dash pattern are set in the inline style (stroke
\* and dash pattern in the attribute too), and a text whose font size is set in
\* the attribute only; the paint
\* controls explored on them.
DocPaint ==
    Svg(<< [Node("n1", "rect", 0, 0, 20, 20, <<>>)
               EXCEPT !.attrs["stroke"] = "#0000ff", !.styles["stroke"] = "#0000ff",
                      !.attrs["stroke-dasharray"] = "2 2",
                      !.styles["stroke-dasharray"] = "2 2",
                      !.styleFill = Color("#0000ff"), !.hasStyle = TRUE],
           [Node("n2", "text", 0, 0, 0, 12, <<>>)
               EXCEPT !.attrs["font-size"] = "12"] >>)

PaintProfile ==
    [docs |-> {DocPaint}, keys |-> PaintProps, handles |-> {"se"}, skew |-> {FALSE},
     interleave |-> FALSE, reload |-> FALSE, maxHist |-> MaxHistS]

\* A rect without style, and a circle whose style holds a transform and, after it,
\* a filter with a drop-shadow in a hex colour; the filter, shadow and transform
\* controls explored on them.
DocFilter ==
    Svg(<< Node("n1", "rect", 0, 0, 20, 20, <<>>),
           [Node("n2", "circle", 10, 10, 20, 20,
                 << Fn("rotate", <<45>>), Fn("scale", << ScaleOne, ScaleOne >>) >>)
               EXCEPT !.filter = << Fn("hue-rotate", <<180>>),
                                   DropShadow(4, 4, 0, "#00ff00", ScaleOne, "hex") >>] >>)

FilterProfile ==
    [docs |-> {DocFilter}, keys |-> {"hueRotate", "grayscale", "rotate", "scale"},
     handles |-> {"se"}, skew |-> {FALSE}, interleave |-> FALSE, reload |-> FALSE,
     maxHist |-> MaxHistS]

\* One generated graphic replaced by another, at any time: a rect and a circle.
ReloadProfile ==
    [docs |-> {DocA, DocB}, handles |-> {"se"}, keys |-> {"x"},
     skew |-> {FALSE}, interleave |-> TRUE, reload |-> TRUE, maxHist |-> MaxHistT]

\* The fill section: the two elements of DocPaint, the fill colour control, the
\* gradient buttons with one colour and the Solid button.
SolidProfile ==
    [docs |-> {DocPaint}, keys |-> {"fill"}, colors |-> {"#ff0000"}, handles |-> {"se"},
     skew |-> {FALSE}, interleave |-> FALSE, reload |-> FALSE, maxHist |-> MaxHistS,
     maxClock |-> MaxClock, maxTimers |-> MaxTimers]

\* Gradients and the clipboard: one rect, one colour, the log long enough for an
\* edit, an undo and another edit.
GradientProfile ==
    [docs |-> {DocA}, shapes |-> {"rect"}, colors |-> {"#ff0000"}, handles |-> {"se"},
     keys |-> {"x"}, skew |-> {FALSE}, interleave |-> FALSE, reload |-> FALSE,
     maxHist |-> MaxHistN, maxClock |-> MaxClock, maxTimers |-> MaxTimers]

\* The two elements of DocFilter; all six filter controls explored on them.
OrderProfile ==
    [docs |-> {DocFilter}, keys |-> FilterKeys, handles |-> {"se"}, skew |-> {FALSE},
     interleave |-> FALSE, reload |-> FALSE, maxHist |-> MaxHistS]

\* ---------------------------------------------------------------------- state
VARIABLES
    currentContent,     \* SvgPreview: the current document text
    history,            \* SvgPreview: the history log
    historyIndex,       \* SvgPreview: index into the log (0-based, as in the code)
    selectedElementId,  \* SvgPreview: selected node id, or None
    dragRef,            \* SvgPreview: the direct-move gesture
    styleProps,         \* EditorTools: property state of the panel
    selectedTagName,    \* EditorTools: tag of the selected node, "" if unknown
    transform,          \* TransformOverlay: live transform state
    bbox,               \* TransformOverlay: TRUE when a bounding box is held
    ovDrag,             \* TransformOverlay: the closures of a handle gesture
    now,                \* the clock Date.now() reads
    clipboardRef,       \* SvgPreview: the copied element, if any
    timers,             \* EditorTools: ids that pending setTimeout calls will select
    reader,             \* EditorTools: the FileReader of an image upload
    shadowProps,        \* EditorTools: shadow state of the panel
    shadowTimer,        \* EditorTools: the setTimeout(..., 0) of updateShadow
    profile,            \* what the run explores (never changes)
    lastOp,             \* history variable: the handler that ran last
    undoFrom,           \* history variable: text and index before the last undo
    status,             \* App: the GenerationStatus
    currentSvg,         \* App: the generated graphic on show, or NoSvg
    appHistory,         \* App: the generated graphics, newest first (its `history`)
    error,              \* App: the message of the ApiError, "" for null
    pending,            \* App: the service calls whose promises have not settled
    started,            \* how many service calls were started so far
    activeTab           \* InputSection: the tab on show

\* The state of the editor (SvgPreview, EditorTools, TransformOverlay) and the state
\* of the application shell around it (App, InputSection).
previewVars ==
    << currentContent, history, historyIndex, selectedElementId, dragRef,
       styleProps, selectedTagName, transform, bbox, ovDrag, now, clipboardRef,
       timers, reader, shadowProps, shadowTimer, profile, lastOp, undoFrom >>

appVars == << status, currentSvg, appHistory, error, pending, started, activeTab >>

vars == << previewVars, appVars >>

\* The handler that ran, how it ended, and the text it was handed (loads and
\* code-panel edits).
OpOn(name, arg, text) == [op |-> name, arg |-> arg, text |-> text]

Op(name, arg) == OpOn(name, arg, EmptyText)

\* useRef<string | null>(null): nothing copied; and the clipboard holding el.outerHTML.
NoClip == [full |-> FALSE, el |-> Node("", "", 0, 0, 0, 0, <<>>)]

\* A faulty copy: the clipboard keeps what it held.
ClipKept(n) == clipboardRef

Clip(n) == [full |-> TRUE, el |-> n]

\* No file is being read; and a read in progress, whose onloadend callback holds
\* the text of the render that started it and that render's onUpdate.
NoRead == [pending |-> FALSE, content |-> EmptyText, history |-> <<>>, index |-> 0]

Reading(c, h, i) == [pending |-> TRUE, content |-> c, history |-> h, index |-> i]

DragRefInit ==
    [isDragging |-> FALSE, el |-> None, idx |-> 0, startAttrX |-> 0, startAttrY |-> 0,
     type |-> "xy", svg |-> EmptyText, attached |-> FALSE]

\* dragRef after a release.  The start values stay in the ref in the code; they are
\* dead (every pointer-down that starts a drag overwrites them before a move reads
\* them), so the model clears them.
NoDrag(d) == DragRefInit

\* No handle gesture: handleMove and handleUp are not registered.
OvIdle ==
    [active |-> FALSE, el |-> None, type |-> "", startTransform |-> DefaultTransform,
     svg |-> EmptyText, attached |-> FALSE, capHistory |-> <<>>, capIndex |-> 0]

\* useState({ enabled: false, x: 2, y: 2, blur: 2, color: '#000000', opacity: 0.5 })
\* (the opacity in thousandths).
ShadowPropsInit ==
    [enabled |-> FALSE, x |-> 2, y |-> 2, blur |-> 2, color |-> "#000000",
     opacity |-> ScaleOne \div 2]

\* No updateShadow callback is waiting; and one waiting, which holds the
\* updateStyle of the render that scheduled it and so that render's shadow state.
NoShadowTimer == [pending |-> FALSE, shadow |-> ShadowPropsInit]

ShadowTimer(shadow) == [pending |-> TRUE, shadow |-> shadow]

\* The fields of the panel's property state that the model keeps (grayscale, sepia, invert and
\* saturate in thousandths, as scale).
StylePropsInit ==
    [rotate |-> 0, scale |-> ScaleOne, flipX |-> FALSE, flipY |-> FALSE,
     fill |-> Color("#000000"), stroke |-> "#000000", strokeWidth |-> "1",
     strokeDasharray |-> "none", fontSize |-> "16",
     blur |-> 0, grayscale |-> 0, sepia |-> 0, invert |-> 0, saturate |-> ScaleOne,
     hueRotate |-> 0]

NoUndo == [set |-> FALSE, content |-> EmptyText, index |-> 0]

\* A GeneratedSvg: the id generateUUID() gave it (fresh for every result; the model
\* numbers the results by the call that produced them) and whether its prompt is
\* that of a generation or of a refinement.  useState<GeneratedSvg | null>(null).
GeneratedSvg(id, prompt) == [id |-> id, prompt |-> prompt]

NoSvg == GeneratedSvg(0, "")

\* A call of the generation service that has not settled: its number, the handler
\* that made it and the graphic that handler's closure held.
Request(seq, kind, base) == [seq |-> seq, kind |-> kind, base |-> base]

InitWith(p) ==
    /\ profile = p
    /\ now = 0
    /\ clipboardRef = NoClip
    /\ timers = << >>
    /\ reader = NoRead
    /\ shadowProps = ShadowPropsInit
    /\ shadowTimer = NoShadowTimer
    /\ currentContent = EmptyText
    /\ history = <<>>
    /\ historyIndex = 0
    /\ selectedElementId = None
    /\ dragRef = DragRefInit
    /\ styleProps = StylePropsInit
    /\ selectedTagName = ""
    /\ transform = DefaultTransform
    /\ bbox = FALSE
    /\ ovDrag = OvIdle
    /\ lastOp = Op("init", "")
    /\ undoFrom = NoUndo
    /\ status = "IDLE"
    /\ currentSvg = NoSvg
    /\ appHistory = << >>
    /\ error = ""
    /\ pending = {}
    /\ started = 0
    /\ activeTab = "create"

Init == InitWith(HistoryProfile)

InitTransform == InitWith(TransformProfile)

InitMove == InitWith(MoveProfile)

InitFlip == InitWith(FlipProfile)

InitArrange == InitWith(ArrangeProfile)

InitCanvas == InitWith(CanvasProfile)

InitPaint == InitWith(PaintProfile)

InitFilter == InitWith(FilterProfile)

InitOrder == InitWith(OrderProfile)

InitGradient == InitWith(GradientProfile)

InitReload == InitWith(ReloadProfile)

InitSolid == InitWith(SolidProfile)

InitRound == InitWith(RoundProfile)

InitNormalize == InitWith(NormalizeProfile)

InitEdit == InitWith(EditProfile)

InitPaste == InitWith(PasteProfile)

InitCreate == InitWith(CreateProfile)

\* The DOM the browser shows: React writes currentContent into it whenever the text
\* changes; a gesture mutates it in place until the next such write.
LiveDom ==
    IF dragRef.isDragging /\ dragRef.attached THEN dragRef.svg
    ELSE IF ovDrag.active /\ ovDrag.attached THEN ovDrag.svg
    ELSE currentContent

\* ---------------------------------------------------------------- the effects
\* EditorTools' parse of the selected node's style into the panel state.
HasFlip(tr, name) == \E i \in 1..Len(tr) : tr[i].fn = name /\ tr[i].args = << -ScaleOne >>

\* getVal(attr, styleName, def): the inline style first, then the attribute, then
\* the default.
GetVal(n, key, def) ==
    IF n.styles[key] # "" THEN n.styles[key]
    ELSE IF n.attrs[key] # "" THEN n.attrs[key]
    ELSE def

\* getVal('fill', 'fill', '#000000')
FillVal(n) ==
    IF n.styleFill.k # "none" THEN n.styleFill
    ELSE IF n.fill.k # "none" THEN n.fill
    ELSE Color("#000000")

\* getFilterVal(name, def): the argument of the first name(...) of the style text.
GetFilterVal(fns, name, def) ==
    IF FirstFn(fns, name) > 0 THEN fns[FirstFn(fns, name)].args[1] ELSE def

\* nums[0] || 2
OrTwo(n) == IF n = 0 THEN 2 ELSE n

\* The shadow state the sync effect reads from a style text.  The text between
\* drop-shadow( and the first ) is cut at whitespace; of rgba(r,g,b,a the colour is
\* not read (it is set to '#000000') and the pattern for the opacity, which ends
\* with \), finds nothing, so that the opacity stays at its default.
ShadowParse(fns) ==
    LET i == FirstFn(fns, "drop-shadow")
    IN  IF i = 0 THEN ShadowPropsInit
        ELSE [enabled |-> TRUE,
              x |-> OrTwo(fns[i].args[1]),
              y |-> OrTwo(fns[i].args[2]),
              blur |-> fns[i].args[3],
              color |-> IF fns[i].form = "rgba" THEN "#000000" ELSE fns[i].color,
              opacity |-> IF fns[i].form = "rgba" THEN ShadowPropsInit.opacity
                          ELSE ScaleOne]

PanelParse(n) ==
    LET fns == StyleFns(n)
        r == FirstFn(fns, "rotate")
        s == FirstFn(fns, "scale")
    IN  [ rotate |-> IF r > 0 THEN fns[r].args[1] ELSE 0,
          scale  |-> IF s > 0 THEN Abs(fns[s].args[1]) ELSE ScaleOne,
          flipX  |-> HasFlip(fns, "scaleX"),
          flipY  |-> HasFlip(fns, "scaleY"),
          fill   |-> FillVal(n),
          stroke |-> GetVal(n, "stroke", "none"),
          strokeWidth |-> GetVal(n, "stroke-width", "1"),
          strokeDasharray |-> GetVal(n, "stroke-dasharray", "none"),
          fontSize |-> GetVal(n, "font-size", "16"),
          blur |-> GetFilterVal(fns, "blur", 0),
          grayscale |-> GetFilterVal(fns, "grayscale", 0),
          sepia |-> GetFilterVal(fns, "sepia", 0),
          invert |-> GetFilterVal(fns, "invert", 0),
          saturate |-> GetFilterVal(fns, "saturate", ScaleOne),
          hueRotate |-> GetFilterVal(fns, "hue-rotate", 0) ]

\* The effects React runs after a handler that leaves text c2, selection s2, panel
\* state p2 and overlay state t2: EditorTools' sync effect, TransformOverlay's
\* layout effect (both keyed on the text and the selection), and the rewrite of the
\* live DOM, which detaches the trees that running gestures hold.
Effects(c2, s2, p2, t2, d2, o2) ==
    LET changed == c2 # currentContent \/ s2 # selectedElementId
        found   == c2.kind = "svg" /\ HasNode(c2, s2)
        mounted == selectedElementId # None
    IN  /\ styleProps' = IF changed /\ found THEN PanelParse(NodeOf(c2, s2)) ELSE p2
        /\ shadowProps' = IF changed /\ found THEN ShadowParse(StyleFns(NodeOf(c2, s2)))
                          ELSE shadowProps
        /\ selectedTagName' =
              IF changed /\ c2.kind = "svg"
              THEN IF found THEN NodeOf(c2, s2).tag ELSE ""
              ELSE selectedTagName
        /\ transform' =
              IF s2 = None THEN DefaultTransform
              ELSE IF changed /\ found THEN ParseTransform(StyleFns(NodeOf(c2, s2)))
              ELSE IF mounted THEN t2 ELSE DefaultTransform
        /\ bbox' =
              IF s2 = None THEN FALSE
              ELSE IF changed /\ found THEN TRUE
              ELSE mounted /\ bbox
        /\ dragRef' = IF c2 # currentContent THEN [d2 EXCEPT !.attached = FALSE] ELSE d2
        /\ ovDrag' = IF c2 # currentContent THEN [o2 EXCEPT !.attached = FALSE] ELSE o2

\* --------------------------------------------------------------- History Manager
\* handleUpdate as seen from a closure that holds log h and index i.
NewHistory(h, i, newContent) == Append(SubSeq(h, 1, i + 1), newContent)

\* A faulty index: newHistory.length.
NewIndexPastEnd(newHistory) == Len(newHistory)

\* setHistoryIndex(newHistory.length - 1)
NewIndex(newHistory) == Len(newHistory) - 1

HandleUpdate(h, i, newContent) ==
    /\ Len(NewHistory(h, i, newContent)) <= profile.maxHist
    /\ history' = NewHistory(h, i, newContent)
    /\ historyIndex' = NewIndex(NewHistory(h, i, newContent))
    /\ currentContent' = newContent

\* An event that is not a step of a pointer gesture (a key press, the arrival of a
\* generated graphic) is delivered: at any time, or only between gestures.
OtherEvent ==
    \/ profile.interleave
    \/ ~dragRef.isDragging /\ ~ovDrag.active /\ ~reader.pending /\ ~shadowTimer.pending

\* Init Data effect: a generated graphic arrives.
Load ==
    \E d \in profile.docs :
        /\ OtherEvent
        /\ profile.reload \/ history = << >>
        /\ currentContent' = NormalizeSvg(d, now)
        /\ history' = << NormalizeSvg(d, now) >>
        /\ historyIndex' = 0
        /\ selectedElementId' = None
        /\ Effects(NormalizeSvg(d, now), None, styleProps, transform, dragRef, ovDrag)
        /\ lastOp' = OpOn("load", "", d)
        /\ undoFrom' = NoUndo
        /\ UNCHANGED << profile, appVars, now, clipboardRef, timers, reader, shadowTimer >>

\* A faulty undo guard: none.
CanUndoAlways == TRUE

\* if (historyIndex > 0)
CanUndo == historyIndex > 0

\* A faulty undo read: history[historyIndex].
UndoContentStale == JsIndex(history, historyIndex)

\* history[historyIndex - 1]
UndoContent == JsIndex(history, historyIndex - 1)

Undo ==
    /\ OtherEvent
    /\ IF CanUndo
       THEN /\ historyIndex' = historyIndex - 1
            /\ currentContent' = UndoContent
            /\ undoFrom' = [set |-> TRUE, content |-> currentContent, index |-> historyIndex]
            /\ lastOp' = Op("undo", "moved")
       ELSE /\ UNCHANGED << historyIndex, currentContent >>
            /\ undoFrom' = NoUndo
            /\ lastOp' = Op("undo", "noop")
    /\ UNCHANGED << history, selectedElementId, profile, appVars, now, clipboardRef,
                    timers, reader, shadowTimer >>
    /\ Effects(currentContent', selectedElementId, styleProps, transform, dragRef, ovDrag)

\* if (historyIndex < history.length - 1)
CanRedo == historyIndex < Len(history) - 1

\* A faulty redo read: history[historyIndex + 2].
RedoContentSkips == JsIndex(history, historyIndex + 2)

\* history[historyIndex + 1]
RedoContent == JsIndex(history, historyIndex + 1)

Redo ==
    /\ OtherEvent
    /\ IF CanRedo
       THEN /\ historyIndex' = historyIndex + 1
            /\ currentContent' = RedoContent
            /\ lastOp' = Op("redo", "moved")
            /\ undoFrom' = IF lastOp.op = "undo" THEN undoFrom ELSE NoUndo
       ELSE /\ UNCHANGED << historyIndex, currentContent >>
            /\ lastOp' = Op("redo", "noop")
            /\ undoFrom' = NoUndo
    /\ UNCHANGED << history, selectedElementId, profile, appVars, now, clipboardRef,
                    timers, reader, shadowTimer >>
    /\ Effects(currentContent', selectedElementId, styleProps, transform, dragRef, ovDrag)

\* ------------------------------------------------------------ selection, keys
\* The pointer holds no gesture and no updateShadow callback is due (and, in runs
\* that do not interleave, no file read is in progress).
PointerFree ==
    /\ ~dragRef.isDragging /\ ~ovDrag.active /\ ~shadowTimer.pending
    /\ profile.interleave \/ ~reader.pending

\* A click on a row of the layer list: onSelectLayer(id).
SelectLayer ==
    /\ PointerFree
    /\ \E id \in LayerRows(currentContent) : selectedElementId' = id
    /\ UNCHANGED << currentContent, history, historyIndex >>
    /\ Effects(currentContent, selectedElementId', styleProps, transform, dragRef, ovDrag)
    /\ lastOp' = Op("select", "")
    /\ undoFrom' = NoUndo
    /\ UNCHANGED << profile, appVars, now, clipboardRef, timers, reader, shadowTimer >>

\* handleKeyDown, Escape.
Escape ==
    /\ OtherEvent
    /\ selectedElementId' = None
    /\ UNCHANGED << currentContent, history, historyIndex >>
    /\ Effects(currentContent, None, styleProps, transform, dragRef, ovDrag)
    /\ lastOp' = Op("escape", "")
    /\ undoFrom' = NoUndo
    /\ UNCHANGED << profile, appVars, now, clipboardRef, timers, reader, shadowTimer >>

\* handleKeyDown, Delete or Backspace.
DeleteKey ==
    /\ OtherEvent
    /\ IF selectedElementId # None /\ currentContent.kind = "svg"
          /\ HasNode(currentContent, selectedElementId)
       THEN /\ HandleUpdate(history, historyIndex,
                   RemoveNode(currentContent, GetElementById(currentContent, selectedElementId)))
            /\ selectedElementId' = None
            /\ lastOp' = Op("delete", "removed")
       ELSE /\ UNCHANGED << currentContent, history, historyIndex, selectedElementId >>
            /\ lastOp' = Op("delete", "noop")
    /\ Effects(currentContent', selectedElementId', styleProps, transform, dragRef, ovDrag)
    /\ undoFrom' = NoUndo
    /\ UNCHANGED << profile, appVars, now, clipboardRef, timers, reader, shadowTimer >>

\* ------------------------------------------------------------- Mutation Engine
\* The values a control can deliver for a key.
PanelValues(key) ==
    CASE key = "rotate" -> PanelRotate
      [] key = "scale"  -> PanelScale
      [] key = "flipX"  -> {~styleProps.flipX}
      [] key = "flipY"  -> {~styleProps.flipY}
      [] key = "hueRotate" -> PanelHue
      [] key = "grayscale" -> PanelGray
      [] key = "blur" -> PanelBlur
      [] key = "sepia" -> PanelSepia
      [] key = "invert" -> {IF styleProps.invert = ScaleOne THEN 0 ELSE ScaleOne}
      [] key = "saturate" -> PanelSaturate
      [] key = "fill" -> PanelFill
      [] key = "stroke" -> PanelStroke
      [] key = "stroke-dasharray" -> PanelDash
      [] key = "stroke-width" -> PanelWidth
      [] key = "font-size" -> PanelFont
      [] OTHER          -> PanelPos

\* newProps = { ...styleProps, [key]: value }, for the fields the model keeps.
NewProps(key, value) ==
    CASE key = "rotate" -> [styleProps EXCEPT !.rotate = value]
      [] key = "scale"  -> [styleProps EXCEPT !.scale = value]
      [] key = "flipX"  -> [styleProps EXCEPT !.flipX = value]
      [] key = "flipY"  -> [styleProps EXCEPT !.flipY = value]
      [] key = "hueRotate" -> [styleProps EXCEPT !.hueRotate = value]
      [] key = "grayscale" -> [styleProps EXCEPT !.grayscale = value]
      [] key = "blur" -> [styleProps EXCEPT !.blur = value]
      [] key = "sepia" -> [styleProps EXCEPT !.sepia = value]
      [] key = "invert" -> [styleProps EXCEPT !.invert = value]
      [] key = "saturate" -> [styleProps EXCEPT !.saturate = value]
      [] key = "fill" -> [styleProps EXCEPT !.fill = Color(value)]
      [] key = "stroke" -> [styleProps EXCEPT !.stroke = value]
      [] OTHER          -> styleProps

\* The element with a transform declaration appended to its style text (the old
\* one removed): a filter declaration, if any, now stands before it.
WithTransform(n, tr) ==
    [n EXCEPT !.tr = tr, !.filterFirst = n.filter # <<>>, !.hasStyle = TRUE]

\* The functions of the filter declaration updateStyle builds from panel state p
\* and shadow state shadow: the filters in a fixed order, the drop-shadow last.
FilterFns(p, shadow) ==
    (IF p.blur > 0 THEN << Fn("blur", << p.blur >>) >> ELSE << >>)
    \o (IF p.grayscale > 0 THEN << Fn("grayscale", << p.grayscale >>) >> ELSE << >>)
    \o (IF p.sepia > 0 THEN << Fn("sepia", << p.sepia >>) >> ELSE << >>)
    \o (IF p.invert > 0 THEN << Fn("invert", << p.invert >>) >> ELSE << >>)
    \o (IF p.saturate # ScaleOne THEN << Fn("saturate", << p.saturate >>) >> ELSE << >>)
    \o (IF p.hueRotate > 0 THEN << Fn("hue-rotate", << p.hueRotate >>) >> ELSE << >>)
    \o (IF shadow.enabled
        THEN << DropShadow(shadow.x, shadow.y, shadow.blur, shadow.color,
                           shadow.opacity, "rgba") >>
        ELSE << >>)

\* The element with a filter declaration appended to its style text (the old one
\* removed); without filters the style attribute is set to what is left, which is
\* the empty text for an element that had no style attribute.
WithFilter(n, p, shadow) ==
    [n EXCEPT !.filter = FilterFns(p, shadow), !.filterFirst = FALSE, !.hasStyle = TRUE]

\* A faulty paint write: the inline style is left as it was.
StyleKept(key, old, value) == old

\* The inline style property after a paint write: removed for the value none of
\* stroke and stroke-dasharray, else set.
StyleSet(key, old, value) ==
    IF value = "none" /\ key \in {"stroke-dasharray", "stroke"} THEN "" ELSE value

\* The attribute after a paint write: removed for the value none of
\* stroke-dasharray, else set.
AttrSet(key, value) ==
    IF value = "none" /\ key = "stroke-dasharray" THEN "" ELSE value

\* The paint branch of updateStyle's callback.
WithPaint(n, key, value) ==
    IF key = "fill"
    THEN LET was == IF n.styleFill.k = "color" THEN n.styleFill.v ELSE ""
         IN  [n EXCEPT !.fill = Color(value),
                       !.styleFill = IF StyleSet(key, was, value) = "" THEN NoPaint
                                     ELSE Color(StyleSet(key, was, value)),
                       !.hasStyle = @ \/ StyleSet(key, was, value) # ""]
    ELSE [n EXCEPT !.attrs[key] = AttrSet(key, value),
                   !.styles[key] = StyleSet(key, @, value),
                   !.hasStyle = @ \/ StyleSet(key, n.styles[key], value) # ""]

\* The callback updateStyle hands to modifySvg, applied to element n, in a render
\* whose shadow state is shadow.
ApplyStyleWith(n, key, value, newProps, shadow) ==
    CASE key = "x" -> [n EXCEPT !.px = value]
      [] key = "y" -> [n EXCEPT !.py = value]
      [] key \in PaintProps -> WithPaint(n, key, value)
      [] key \in FilterKeys -> WithFilter(n, newProps, shadow)
      [] OTHER     -> WithTransform(n, PanelTransformStr(newProps))

ApplyStyle(n, key, value, newProps) == ApplyStyleWith(n, key, value, newProps, shadowProps)

\* The document modifySvg serializes after running updateStyle's callback.
StyledDoc(doc, id, key, value, newProps) ==
    IF HasNode(doc, id)
    THEN WithNode(doc, GetElementById(doc, id),
                  ApplyStyle(NodeOf(doc, id), key, value, newProps))
    ELSE doc

\* updateStyle(key, value), called by a control of the style tab.  The tab shows
\* the controls whenever a node id is selected; the position fields only for the
\* movable tags.
UpdateStyle ==
    \E key \in profile.keys :
        /\ PointerFree
        /\ selectedElementId # None
        /\ key \in {"x", "y"} => selectedTagName \in Movable
        /\ \E value \in PanelValues(key) :
              /\ IF currentContent.kind = "svg"
                 THEN HandleUpdate(history, historyIndex,
                          StyledDoc(currentContent, selectedElementId, key, value,
                                    NewProps(key, value)))
                 ELSE UNCHANGED << currentContent, history, historyIndex >>
              /\ Effects(currentContent', selectedElementId, NewProps(key, value),
                         transform, dragRef, ovDrag)
        /\ UNCHANGED selectedElementId
        /\ lastOp' = Op("updateStyle", key)
        /\ undoFrom' = NoUndo
        /\ UNCHANGED << profile, appVars, now, clipboardRef, timers, reader, shadowTimer >>

\* --------------------------------------------------------- Direct-Move Controller
\* What a pointer-down can hit: the background (0) or the element at a position of
\* the rendered document.
Targets == IF currentContent.kind = "svg"
           THEN 0..Len(currentContent.nodes)
           ELSE {}

\* dragRef once a drag of element n, at position i of the rendered document, starts.
StartDrag(n, i) ==
    [isDragging |-> TRUE, el |-> n.id, idx |-> i, startAttrX |-> n.px,
     startAttrY |-> n.py,
     type |-> IF n.tag \in {"circle", "ellipse"} THEN "cxcy" ELSE "xy",
     svg |-> currentContent, attached |-> TRUE]

\* A faulty tag test: every tag starts a drag.
DraggableAll(tag) == TRUE

\* Tags on which a pointer-down starts a drag.
Draggable(tag) == tag \in Movable

\* element.id = `el-${Date.now()}` for an element without id.
ClickId(t) == "el-" \o Stamp(t)

\* The element a pointer-down hit, with the id the handler leaves on it.
Clicked(i) ==
    IF currentContent.nodes[i].id = ""
    THEN [currentContent.nodes[i] EXCEPT !.id = ClickId(now)]
    ELSE currentContent.nodes[i]

\* A faulty background test: only the svg element itself counts.
HitsSvgOnly(target) == target = 0

\* target.tagName === 'svg' || target.id === 'editor-background'
HitsBackground(target) ==
    target = 0 \/ currentContent.nodes[target].id = Background

HandleMouseDown ==
    \E target \in Targets, button \in {0, 2} :
        /\ PointerFree
        /\ IF button # 0
           THEN /\ UNCHANGED << currentContent, history, historyIndex, selectedElementId,
                                dragRef, styleProps, shadowProps, selectedTagName, transform, bbox,
                                ovDrag >>
                /\ lastOp' = Op("mousedown", "ignored")
           ELSE IF HitsBackground(target)
           THEN /\ selectedElementId' = None
                /\ UNCHANGED << currentContent, history, historyIndex >>
                /\ Effects(currentContent, None, styleProps, transform, dragRef, ovDrag)
                /\ lastOp' = Op("mousedown", IF target = 0 THEN "background" ELSE "backdrop")
           ELSE /\ IF currentContent.nodes[target].id = ""
                   THEN HandleUpdate(history, historyIndex,
                                     WithNode(currentContent, target, Clicked(target)))
                   ELSE UNCHANGED << currentContent, history, historyIndex >>
                /\ selectedElementId' = Clicked(target).id
                /\ IF Draggable(Clicked(target).tag)
                   THEN /\ Effects(currentContent', Clicked(target).id, styleProps, transform,
                                   StartDrag(Clicked(target), target), ovDrag)
                        /\ lastOp' = Op("mousedown", "drag")
                   ELSE /\ Effects(currentContent', Clicked(target).id, styleProps,
                                   transform, dragRef, ovDrag)
                        /\ lastOp' = Op("mousedown", "select")
        /\ undoFrom' = NoUndo
        /\ UNCHANGED << profile, appVars, now, clipboardRef, timers, reader, shadowTimer >>

\* The element a drag holds, moved to its start position plus the pointer offset.
MovedNode(n, d, dx, dy) == [n EXCEPT !.px = d.startAttrX + dx, !.py = d.startAttrY + dy]

\* The window's mousemove listener.  While a handle gesture runs, the same event
\* also reaches the overlay's handleMove, which HandleMove models.
HandleMouseMove ==
    \E dx \in Offsets, dy \in Offsets :
        /\ ~ovDrag.active
        /\ IF dragRef.isDragging /\ dragRef.el # None
           THEN dragRef' = [dragRef EXCEPT !.svg =
                              WithNode(dragRef.svg, dragRef.idx,
                                       MovedNode(dragRef.svg.nodes[dragRef.idx], dragRef, dx, dy))]
           ELSE UNCHANGED dragRef
        /\ UNCHANGED << currentContent, history, historyIndex, selectedElementId,
                        styleProps, shadowProps, selectedTagName, transform, bbox, ovDrag >>
        /\ lastOp' = Op("mousemove", "")
        /\ undoFrom' = NoUndo
        /\ UNCHANGED << profile, appVars, now, clipboardRef, timers, reader, shadowTimer >>

\* The window's mouseup listener (HandleUp models the event during a handle gesture).
HandleMouseUp ==
    /\ ~ovDrag.active
    /\ IF dragRef.isDragging
       THEN /\ HandleUpdate(history, historyIndex, LiveDom)
            /\ Effects(currentContent', selectedElementId, styleProps, transform,
                       NoDrag(dragRef), ovDrag)
            /\ lastOp' = Op("mouseup", "commit")
       ELSE /\ UNCHANGED << currentContent, history, historyIndex, dragRef, styleProps, shadowProps,
                            selectedTagName, transform, bbox, ovDrag >>
            /\ lastOp' = Op("mouseup", "noop")
    /\ UNCHANGED selectedElementId
    /\ undoFrom' = NoUndo
    /\ UNCHANGED << profile, appVars, now, clipboardRef, timers, reader, shadowTimer >>

\* -------------------------------------------------- Interactive Transform Controller
\* type.includes(c) for the eight resize handles.
Includes(type, c) ==
    CASE c = "n" -> type \in {"nw", "n", "ne"}
      [] c = "s" -> type \in {"sw", "s", "se"}
      [] c = "w" -> type \in {"nw", "w", "sw"}
      [] c = "e" -> type \in {"ne", "e", "se"}

\* bbox?.height || 100
OrHundred(n) == IF n = 0 THEN 100 ELSE n

\* (d / size) * 2, in thousandths.
ScaleDelta(d, size) == (d * 2 * ScaleOne) \div OrHundred(size)

\* d * 0.5 degrees, in tenths of a degree.
SkewDelta(d) == 5 * d

\* The transform state a move event computes from the state captured at pointer-down.
NewTransform(st, type, box, dx, dy, isSkew, angle) ==
    IF type = "rotate"
    THEN [st EXCEPT !.rotate = JsRem(st.rotate + angle + 90, 360)]
    ELSE LET t1 == IF Includes(type, "n")
                   THEN IF isSkew THEN [st EXCEPT !.skewX = st.skewX + SkewDelta(dx)]
                        ELSE [st EXCEPT !.scaleY = st.scaleY - ScaleDelta(dy, box.h)]
                   ELSE st
             t2 == IF Includes(type, "s")
                   THEN IF isSkew THEN [t1 EXCEPT !.skewX = st.skewX - SkewDelta(dx)]
                        ELSE [t1 EXCEPT !.scaleY = st.scaleY + ScaleDelta(dy, box.h)]
                   ELSE t1
             t3 == IF Includes(type, "w")
                   THEN IF isSkew THEN [t2 EXCEPT !.skewY = st.skewY + SkewDelta(dy)]
                        ELSE [t2 EXCEPT !.scaleX = st.scaleX - ScaleDelta(dx, box.w)]
                   ELSE t2
         IN  IF Includes(type, "e")
             THEN IF isSkew THEN [t3 EXCEPT !.skewY = st.skewY - SkewDelta(dy)]
                  ELSE [t3 EXCEPT !.scaleX = st.scaleX + ScaleDelta(dx, box.w)]
             ELSE t3

\* Pointer-down on a handle.  The closures created here hold the element, the
\* transform state and the onUpdate of the current render.
HandleDragStart ==
    \E type \in profile.handles :
        /\ PointerFree
        /\ selectedElementId # None /\ bbox
        /\ IF HasNode(LiveDom, selectedElementId)
           THEN /\ ovDrag' = [active |-> TRUE, el |-> selectedElementId, type |-> type,
                              startTransform |-> transform, svg |-> LiveDom,
                              attached |-> TRUE, capHistory |-> history,
                              capIndex |-> historyIndex]
                /\ lastOp' = Op("dragstart", "")
           ELSE /\ UNCHANGED ovDrag
                /\ lastOp' = Op("dragstart", "noel")
        /\ UNCHANGED << currentContent, history, historyIndex, selectedElementId, dragRef,
                        styleProps, shadowProps, selectedTagName, transform, bbox >>
        /\ undoFrom' = NoUndo
        /\ UNCHANGED << profile, appVars, now, clipboardRef, timers, reader, shadowTimer >>

\* The overlay's handleMove: live preview, written to the element only.
HandleMove ==
    \E dx \in Offsets, dy \in Offsets, isSkew \in profile.skew, angle \in Angles :
        /\ ovDrag.active
        /\ LET el == NodeOf(ovDrag.svg, ovDrag.el)
               nt == NewTransform(ovDrag.startTransform, ovDrag.type, el, dx, dy, isSkew, angle)
           IN  /\ transform' = IF selectedElementId # None THEN nt ELSE transform
               /\ ovDrag' = [ovDrag EXCEPT !.svg =
                                WithNode(ovDrag.svg, GetElementById(ovDrag.svg, ovDrag.el),
                                         WithTransform(el, TransformStr(nt)))]
        /\ UNCHANGED << currentContent, history, historyIndex, selectedElementId, dragRef,
                        styleProps, shadowProps, selectedTagName, bbox >>
        /\ lastOp' = Op("handlemove", IF ovDrag.type = "rotate" THEN ToString(angle) ELSE "")
        /\ undoFrom' = NoUndo
        /\ UNCHANGED << profile, appVars, now, clipboardRef, timers, reader, shadowTimer >>

\* A faulty handleUp: handleMove and handleUp stay registered.
ListenersKept == ovDrag

\* The overlay's gesture state once handleUp has removed handleMove and handleUp
\* from the window.
ListenersRemoved == OvIdle

\* The overlay's handleUp: unregisters the listeners and saves the final state
\* through the onUpdate captured at pointer-down.
HandleUp ==
    /\ ovDrag.active
    /\ HandleUpdate(ovDrag.capHistory, ovDrag.capIndex, ovDrag.svg)
    /\ UNCHANGED selectedElementId
    /\ Effects(currentContent', selectedElementId, styleProps, transform, dragRef,
               ListenersRemoved)
    /\ lastOp' = Op("handleup", "")
    /\ undoFrom' = NoUndo
    /\ UNCHANGED << profile, appVars, now, clipboardRef, timers, reader, shadowTimer >>

\* The values the shadow controls deliver: the checkbox, the x field, the colour.
ShadowValues ==
    { [shadowProps EXCEPT !.enabled = ~shadowProps.enabled],
      [shadowProps EXCEPT !.x = 5],
      [shadowProps EXCEPT !.color = "#ff0000"] }

\* updateShadow(newShadow), called by a control of the shadow section: the state
\* is set and updateStyle of this render is scheduled with setTimeout(..., 0).  The
\* callback holds this render's updateStyle, hence this render's shadow state; the
\* shadow fields other than the checkbox are shown when the shadow is enabled.
UpdateShadow ==
    \E newShadow \in ShadowValues :
        /\ PointerFree
        /\ selectedElementId # None
        /\ newShadow.enabled # shadowProps.enabled \/ shadowProps.enabled
        /\ newShadow # shadowProps
        /\ shadowProps' = newShadow
        /\ shadowTimer' = ShadowTimer(shadowProps)
        /\ UNCHANGED << currentContent, history, historyIndex, selectedElementId, dragRef,
                        styleProps, selectedTagName, transform, bbox, ovDrag >>
        /\ lastOp' = Op("updateShadow", "")
        /\ undoFrom' = NoUndo
        /\ UNCHANGED << profile, appVars, now, clipboardRef, timers, reader >>

\* The callback of updateShadow runs: updateStyle('blur', styleProps.blur) of the
\* render that scheduled it.  No handler runs between the two (PointerFree), so the
\* text, the log, the selection and the panel state it holds are the current ones;
\* the shadow state it holds is the one from before updateShadow.
ShadowTimerFires ==
    /\ shadowTimer.pending
    /\ shadowTimer' = NoShadowTimer
    /\ IF selectedElementId # None /\ currentContent.kind = "svg"
       THEN HandleUpdate(history, historyIndex,
                IF HasNode(currentContent, selectedElementId)
                THEN WithNode(currentContent,
                         GetElementById(currentContent, selectedElementId),
                         ApplyStyleWith(NodeOf(currentContent, selectedElementId), "blur",
                                        styleProps.blur, styleProps, shadowTimer.shadow))
                ELSE currentContent)
       ELSE UNCHANGED << currentContent, history, historyIndex >>
    /\ UNCHANGED selectedElementId
    /\ Effects(currentContent', selectedElementId, styleProps, transform, dragRef, ovDrag)
    /\ lastOp' = Op("shadowTimer", "")
    /\ undoFrom' = NoUndo
    /\ UNCHANGED << profile, appVars, now, clipboardRef, timers, reader >>

\* ------------------------------------------------------------- scene operations
\* Time passes: Date.now() is read once per handler and two handlers may read the
\* same value.
Tick ==
    /\ now < profile.maxClock
    /\ now' = now + 1
    /\ UNCHANGED << currentContent, history, historyIndex, selectedElementId, dragRef,
                    styleProps, selectedTagName, transform, bbox, ovDrag, clipboardRef,
                    timers, reader, profile, appVars, shadowProps, shadowTimer >>
    /\ lastOp' = Op("tick", "")
    /\ undoFrom' = NoUndo

\* The code panel's textarea: onChange={(e) => handleUpdate(e.target.value)}.
CodeEdit ==
    \E text \in profile.typed :
        /\ PointerFree
        /\ currentContent.kind # "empty"
        /\ HandleUpdate(history, historyIndex, text)
        /\ UNCHANGED selectedElementId
        /\ Effects(text, selectedElementId, styleProps, transform, dragRef, ovDrag)
        /\ lastOp' = OpOn("codeedit", "", text)
        /\ undoFrom' = NoUndo
        /\ UNCHANGED << profile, appVars, now, clipboardRef, timers, reader, shadowTimer >>

\* handleKeyDown reaches the actions that need a selection: an id is selected and
\* the parsed current text has an element with it.
KeyTarget ==
    /\ selectedElementId # None
    /\ currentContent.kind = "svg"
    /\ HasNode(currentContent, selectedElementId)

\* A key press that ends before any state is written.
KeyIgnored(name) ==
    /\ UNCHANGED << currentContent, history, historyIndex, selectedElementId, clipboardRef >>
    /\ Effects(currentContent, selectedElementId, styleProps, transform, dragRef, ovDrag)
    /\ lastOp' = Op(name, "noop")

\* handleKeyDown, Ctrl+C.
CopyKey ==
    /\ OtherEvent
    /\ IF KeyTarget
       THEN /\ clipboardRef' = Clip(NodeOf(currentContent, selectedElementId))
            /\ UNCHANGED << currentContent, history, historyIndex, selectedElementId >>
            /\ Effects(currentContent, selectedElementId, styleProps, transform, dragRef,
                       ovDrag)
            /\ lastOp' = Op("copy", "copied")
       ELSE KeyIgnored("copy")
    /\ undoFrom' = NoUndo
    /\ UNCHANGED << profile, appVars, now, timers, reader, shadowTimer >>

\* handleKeyDown, Ctrl+X.
CutKey ==
    /\ OtherEvent
    /\ IF KeyTarget
       THEN /\ clipboardRef' = Clip(NodeOf(currentContent, selectedElementId))
            /\ HandleUpdate(history, historyIndex,
                   RemoveNode(currentContent, GetElementById(currentContent, selectedElementId)))
            /\ selectedElementId' = None
            /\ Effects(currentContent', None, styleProps, transform, dragRef, ovDrag)
            /\ lastOp' = Op("cut", "removed")
       ELSE KeyIgnored("cut")
    /\ undoFrom' = NoUndo
    /\ UNCHANGED << profile, appVars, now, timers, reader, shadowTimer >>

\* The fixed offset of a duplicate or a pasted element.
CloneOffset == 10

\* The offset logic of Duplicate and Paste: x/y, cx/cy, or a translate appended to
\* the transform attribute.
OffsetClone(n) ==
    IF n.tag \in {"rect", "image", "text", "use", "circle", "ellipse"}
    THEN [n EXCEPT !.px = @ + CloneOffset, !.py = @ + CloneOffset]
    ELSE [n EXCEPT !.shift = @ + 1]

\* The document with element n inserted after position i.
InsertAfter(doc, i, n) ==
    [doc EXCEPT !.nodes = SubSeq(doc.nodes, 1, i) \o << n >>
                           \o SubSeq(doc.nodes, i + 1, Len(doc.nodes)),
                !.defsAt = IF i <= @ THEN @ + 1 ELSE @]

\* svg.appendChild(n)
AppendChild(doc, n) == [doc EXCEPT !.nodes = Append(doc.nodes, n)]

\* `dup-${Date.now()}`
DupId(t) == "dup-" \o Stamp(t)

\* handleKeyDown, Ctrl+D.
DuplicateKey ==
    /\ OtherEvent
    /\ IF KeyTarget
       THEN /\ HandleUpdate(history, historyIndex,
                   InsertAfter(currentContent,
                       GetElementById(currentContent, selectedElementId),
                       OffsetClone([NodeOf(currentContent, selectedElementId)
                                        EXCEPT !.id = DupId(now)])))
            /\ selectedElementId' = DupId(now)
            /\ UNCHANGED clipboardRef
            /\ Effects(currentContent', DupId(now), styleProps, transform, dragRef, ovDrag)
            /\ lastOp' = Op("duplicate", "cloned")
       ELSE KeyIgnored("duplicate")
    /\ undoFrom' = NoUndo
    /\ UNCHANGED << profile, appVars, now, timers, reader, shadowTimer >>

\* `paste-${Date.now()}`
PasteId(t) == "paste-" \o Stamp(t)

\* handlePaste, Ctrl+V.
PasteKey ==
    /\ OtherEvent
    /\ IF clipboardRef.full /\ currentContent.kind = "svg"
       THEN /\ HandleUpdate(history, historyIndex,
                   AppendChild(currentContent,
                       OffsetClone([clipboardRef.el EXCEPT !.id = PasteId(now)])))
            /\ selectedElementId' = PasteId(now)
            /\ UNCHANGED clipboardRef
            /\ Effects(currentContent', PasteId(now), styleProps, transform, dragRef,
                       ovDrag)
            /\ lastOp' = Op("paste", "pasted")
       ELSE KeyIgnored("paste")
    /\ undoFrom' = NoUndo
    /\ UNCHANGED << profile, appVars, now, timers, reader, shadowTimer >>

\* modifySvg(callback) where the callback turns the parsed text into doc; sel is
\* the selection the handler leaves.  onUpdate(svg.outerHTML) is called after the
\* callback, whatever it did; a text without an svg element is left alone.
ModifySvg(doc, sel) ==
    /\ IF currentContent.kind = "svg"
       THEN HandleUpdate(history, historyIndex, doc)
       ELSE UNCHANGED << currentContent, history, historyIndex >>
    /\ selectedElementId' = sel
    /\ Effects(currentContent', sel, styleProps, transform, dragRef, ovDrag)

\* A faulty deleteLayer: the selection is never cleared.
SelectionKept(sel, id) == sel

\* if (selectedElementId === id) onSelectLayer(null)
SelectionAfterDelete(sel, id) == IF sel = id THEN None ELSE sel

\* deleteLayer(id), the trash button of a layer row.
DeleteLayer ==
    \E id \in LayerRows(currentContent) :
        /\ PointerFree
        /\ IF HasNode(currentContent, id)
           THEN ModifySvg(RemoveNode(currentContent, GetElementById(currentContent, id)),
                          SelectionAfterDelete(selectedElementId, id))
           ELSE ModifySvg(currentContent, selectedElementId)
        /\ lastOp' = Op("deleteLayer", id)
        /\ undoFrom' = NoUndo
        /\ UNCHANGED << profile, appVars, now, clipboardRef, timers, reader, shadowTimer >>

\* `copy-${Date.now()}`
CopyId(t) == "copy-" \o Stamp(t)

\* setTimeout(() => onSelectLayer(id), 100)
SetTimeout(id) ==
    /\ Len(timers) < profile.maxTimers
    /\ timers' = Append(timers, id)

\* duplicateLayer(id), the copy button of a layer row.
DuplicateLayer ==
    \E id \in LayerRows(currentContent) :
        /\ PointerFree
        /\ IF HasNode(currentContent, id)
           THEN /\ ModifySvg(InsertAfter(currentContent, GetElementById(currentContent, id),
                                 [NodeOf(currentContent, id) EXCEPT !.id = CopyId(now)]),
                             selectedElementId)
                /\ SetTimeout(CopyId(now))
           ELSE /\ ModifySvg(currentContent, selectedElementId)
                /\ UNCHANGED timers
        /\ lastOp' = Op("duplicateLayer", id)
        /\ undoFrom' = NoUndo
        /\ UNCHANGED << profile, appVars, now, clipboardRef, reader, shadowTimer >>

\* The document with the elements at positions i and i + 1 exchanged.
SwapWithNext(doc, i) ==
    [doc EXCEPT !.nodes = [k \in 1..Len(doc.nodes) |->
        IF k = i THEN doc.nodes[i + 1]
        ELSE IF k = i + 1 THEN doc.nodes[i]
        ELSE doc.nodes[k]]]

\* The callback of moveLayer(id, direction) applied to a document: the element
\* changes places with its next (up) or previous (down) element sibling, which is
\* the defs element when that is the neighbour.
MovedLayer(doc, id, direction) ==
    LET i == GetElementById(doc, id)
    IN  IF i = 0 THEN doc
        ELSE IF direction = "up"
        THEN IF doc.hasDefs /\ doc.defsAt = i THEN [doc EXCEPT !.defsAt = i - 1]
             ELSE IF i < Len(doc.nodes) THEN SwapWithNext(doc, i) ELSE doc
        ELSE IF doc.hasDefs /\ doc.defsAt = i - 1 THEN [doc EXCEPT !.defsAt = i]
             ELSE IF i > 1 THEN SwapWithNext(doc, i - 1) ELSE doc

\* moveLayer(id, direction), the arrow buttons of a layer row.
MoveLayer ==
    \E id \in LayerRows(currentContent), direction \in {"up", "down"} :
        /\ PointerFree
        /\ ModifySvg(MovedLayer(currentContent, id, direction), selectedElementId)
        /\ lastOp' = Op(IF direction = "up" THEN "moveUp" ELSE "moveDown", id)
        /\ undoFrom' = NoUndo
        /\ UNCHANGED << profile, appVars, now, clipboardRef, timers, reader, shadowTimer >>

\* NaN, what Number(s) gives for a text that is not a number and what arithmetic
\* on undefined gives: a value no coordinate of a graphic takes.
NaN == 0 - 1000000000

\* svg.getAttribute('viewBox')?.split(' ').map(Number) || [0, 0, 100, 100]: the
\* attribute is cut at single spaces only, so a comma-separated one is a single
\* piece that is not a number.
SplitSpace(root) ==
    IF root.viewBox = << >> THEN << 0, 0, 100, 100 >>
    ELSE IF root.commas THEN << NaN >>
    ELSE root.viewBox

\* The canvas size EditorTools shows: the viewBox cut at whitespace and commas,
\* else the width and height attributes, else 100.
CanvasProps(doc) ==
    IF Len(doc.root.viewBox) >= 4
    THEN [width |-> doc.root.viewBox[3], height |-> doc.root.viewBox[4]]
    ELSE [width  |-> IF doc.root.width.u = "none" THEN 100 ELSE doc.root.width.v,
          height |-> IF doc.root.height.u = "none" THEN 100 ELSE doc.root.height.v]

\* a - b, a + b and a / 2 of JavaScript numbers (the graphics explored keep the
\* halves whole).
Minus(a, b) == IF a = NaN \/ b = NaN THEN NaN ELSE a - b

Plus(a, b) == IF a = NaN \/ b = NaN THEN NaN ELSE a + b

Half(a) == IF a = NaN THEN NaN ELSE a \div 2

\* The callback alignLayer(alignment) hands to modifySvg, applied to element n of a
\* document with the given root: the box of a circle from r, cx and cy, of a rect or
\* an image from width, height, x and y; a text is centred only.
Aligned(n, root, alignment) ==
    LET viewBox == SplitSpace(root)
        vbW == IF Len(viewBox) >= 3 THEN viewBox[3] ELSE NaN
        vbH == IF Len(viewBox) >= 4 THEN viewBox[4] ELSE NaN
        w == CASE n.tag = "circle" -> n.w
               [] n.tag \in {"rect", "image"} -> n.w
               [] OTHER -> 0
        h == CASE n.tag = "circle" -> n.w
               [] n.tag \in {"rect", "image"} -> n.h
               [] OTHER -> 0
        x == CASE n.tag = "circle" -> Minus(n.px, Half(w))
               [] n.tag \in {"rect", "image"} -> n.px
               [] OTHER -> 0
        y == CASE n.tag = "circle" -> Minus(n.py, Half(h))
               [] n.tag \in {"rect", "image"} -> n.py
               [] OTHER -> 0
        newX == CASE alignment = "left" -> 0
                  [] alignment = "center" -> Half(Minus(vbW, w))
                  [] alignment = "right" -> Minus(vbW, w)
                  [] OTHER -> x
        newY == CASE alignment = "top" -> 0
                  [] alignment = "middle" -> Half(Minus(vbH, h))
                  [] alignment = "bottom" -> Minus(vbH, h)
                  [] OTHER -> y
    IN  CASE n.tag = "circle" ->
                [n EXCEPT !.px = Plus(newX, Half(w)), !.py = Plus(newY, Half(h))]
          [] n.tag \in {"rect", "image"} ->
                [n EXCEPT !.px = newX, !.py = newY]
          [] n.tag = "text" /\ alignment = "center" ->
                [n EXCEPT !.px = Half(vbW)]
          [] OTHER -> n

\* The document alignLayer serializes: unchanged when the id names no element.
AlignedDoc(doc, id, alignment) ==
    IF HasNode(doc, id)
    THEN WithNode(doc, GetElementById(doc, id),
                  Aligned(NodeOf(doc, id), doc.root, alignment))
    ELSE doc

\* alignLayer(alignment), the alignment buttons of the layers tab.
AlignLayer ==
    \E alignment \in profile.aligns :
        /\ PointerFree
        /\ selectedElementId # None
        /\ ModifySvg(AlignedDoc(currentContent, selectedElementId, alignment),
                     selectedElementId)
        /\ lastOp' = Op("align", alignment)
        /\ undoFrom' = NoUndo
        /\ UNCHANGED << profile, appVars, now, clipboardRef, timers, reader, shadowTimer >>

\* svg.prepend(n)
Prepend(doc, n) ==
    [doc EXCEPT !.nodes = << n >> \o doc.nodes,
                !.defsAt = IF doc.hasDefs THEN @ + 1 ELSE @]

\* Entry i (from 1) of the array SplitSpace gives; a missing entry is undefined,
\* which arithmetic turns into NaN.
BoxEntry(root, i) ==
    IF Len(SplitSpace(root)) >= i THEN SplitSpace(root)[i] ELSE NaN

\* The background rectangle updateCanvas('bg', value) leaves: 1000 units beyond the
\* viewBox on every side, filled with the value.
BgRect(n, root, value) ==
    [n EXCEPT !.px = Minus(BoxEntry(root, 1), 1000),
              !.py = Minus(BoxEntry(root, 2), 1000),
              !.w = Plus(BoxEntry(root, 3), 2000),
              !.h = Plus(BoxEntry(root, 4), 2000),
              !.fill = Color(value)]

\* The callback updateCanvas(key, value) hands to modifySvg.
CanvasDoc(doc, key, value) ==
    CASE key = "width" ->
            [doc EXCEPT !.root.viewBox = << 0, 0, value, CanvasProps(doc).height >>,
                        !.root.commas = FALSE,
                        !.root.width = Px(value),
                        !.root.height = Px(CanvasProps(doc).height)]
      [] key = "height" ->
            [doc EXCEPT !.root.viewBox = << 0, 0, CanvasProps(doc).width, value >>,
                        !.root.commas = FALSE,
                        !.root.width = Px(CanvasProps(doc).width),
                        !.root.height = Px(value)]
      [] key = "bg" /\ value = "none" ->
            IF HasNode(doc, Background)
            THEN RemoveNode(doc, GetElementById(doc, Background))
            ELSE doc
      [] key = "bg" /\ value # "none" ->
            IF HasNode(doc, Background)
            THEN WithNode(doc, GetElementById(doc, Background),
                          BgRect(NodeOf(doc, Background), doc.root, value))
            ELSE Prepend(doc, BgRect(Node(Background, "rect", 0, 0, 0, 0, <<>>),
                                     doc.root, value))

\* The values the canvas controls deliver for a key.
CanvasValues(key) ==
    IF key = "bg" THEN profile.colors \cup {"none"} ELSE profile.sides

\* updateCanvas(key, value), the canvas controls of the layers tab.  The panel's
\* canvasProps are what the sync effect read from the text shown.
UpdateCanvas ==
    \E key \in {"width", "height", "bg"} :
      \E value \in CanvasValues(key) :
        /\ PointerFree
        /\ ModifySvg(CanvasDoc(currentContent, key, value), selectedElementId)
        /\ lastOp' = Op("updateCanvas", key)
        /\ undoFrom' = NoUndo
        /\ UNCHANGED << profile, appVars, now, clipboardRef, timers, reader, shadowTimer >>

\* The numbers addShape and handleImageUpload read from the root: viewBox[2] || 100
\* and viewBox[3] || 100 (a missing entry, 0 and NaN read as 100).
BoxSide(doc, part) ==
    LET viewBox == SplitSpace(doc.root)
    IN  IF Len(viewBox) >= part /\ viewBox[part] \notin {0, NaN}
        THEN viewBox[part]
        ELSE 100

Min(a, b) == IF a < b THEN a ELSE b

\* The tag and the fill addShape gives each type.
ShapeTag(type) ==
    CASE type \in {"rect", "circle", "ellipse", "text"} -> type
      [] type \in {"triangle", "star"} -> "polygon"
      [] type \in {"heart", "arrow", "bubble"} -> "path"

ShapeFill(type) ==
    CASE type = "rect" -> "#6366f1"
      [] type = "circle" -> "#ec4899"
      [] type = "ellipse" -> "#8b5cf6"
      [] type = "triangle" -> "#f59e0b"
      [] type = "star" -> "#eab308"
      [] type = "heart" -> "#ef4444"
      [] type = "arrow" -> "#3b82f6"
      [] type = "bubble" -> "#10b981"
      [] type = "text" -> "#ffffff"

\* The number of spikes of a star.
Spikes == 5

\* Vertex i (0 .. 2 * spikes - 1) of the star addShape draws in a width x height
\* box: at radius r from the centre (width / 2, height / 2), in the direction
\* (PI / spikes) * i - PI / 2, where r is size / 2 for even i and size / 5 for odd
\* i and size is min(width, height) / 5.  The centre is kept doubled, the radius as
\* the fraction num / den and the direction in degrees, so that nothing is rounded.
StarVertex(width, height, i) ==
    [cx2 |-> width, cy2 |-> height,
     num |-> Min(width, height),
     den |-> IF i % 2 = 0 THEN 5 * 2 ELSE 5 * 5,
     deg |-> (180 \div Spikes) * i - 90]

StarPoints(width, height) ==
    [k \in 1..(Spikes * 2) |-> StarVertex(width, height, k - 1)]

\* `shape-${Date.now()}`
ShapeId(t) == "shape-" \o Stamp(t)

\* The element addShape(type) builds for a document at time t (lengths in whole
\* units, fractions dropped): a rect around the centre, a circle, ellipse or text
\* at the centre, a polygon or path drawn around the centre (no x/y of its own).
NewShape(doc, type, t) ==
    LET width   == BoxSide(doc, 3)
        height  == BoxSide(doc, 4)
        centerX == width \div 2
        centerY == height \div 2
        size    == Min(width, height) \div 5
        el == CASE type = "rect" ->
                     Node(ShapeId(t), "rect", centerX - size \div 2, centerY - size \div 2,
                          size, size, <<>>)
                [] type = "circle" ->
                     Node(ShapeId(t), "circle", centerX, centerY, size, size, <<>>)
                [] type = "ellipse" ->
                     Node(ShapeId(t), "ellipse", centerX, centerY, (4 * size) \div 3,
                          (2 * size) \div 3, <<>>)
                [] type = "text" ->
                     Node(ShapeId(t), "text", centerX, centerY, 0, size \div 2, <<>>)
                [] type = "star" ->
                     [Node(ShapeId(t), "polygon", 0, 0, size, size, <<>>)
                         EXCEPT !.points = StarPoints(width, height)]
                [] OTHER ->
                     Node(ShapeId(t), ShapeTag(type), 0, 0, size, size, <<>>)
    IN  [el EXCEPT !.fill = Color(ShapeFill(type))]

\* addShape(type), the shape buttons of the assets tab.
AddShape ==
    \E type \in profile.shapes :
        /\ PointerFree
        /\ ModifySvg(AppendChild(currentContent, NewShape(currentContent, type, now)),
                     selectedElementId)
        /\ IF currentContent.kind = "svg"
           THEN SetTimeout(ShapeId(now))
           ELSE UNCHANGED timers
        /\ lastOp' = Op("addShape", type)
        /\ undoFrom' = NoUndo
        /\ UNCHANGED << profile, appVars, now, clipboardRef, reader, shadowTimer >>

\* `img-${Date.now()}`
ImgId(t) == "img-" \o Stamp(t)

\* The image element of handleImageUpload: half the smaller side, centred.
NewImage(doc, t) ==
    LET width  == BoxSide(doc, 3)
        height == BoxSide(doc, 4)
        size   == Min(width, height) \div 2
    IN  Node(ImgId(t), "image", width \div 2 - size \div 2, height \div 2 - size \div 2,
             size, size, <<>>)

\* handleImageUpload: a file is chosen and reader.readAsDataURL(file) starts.
ImageChosen ==
    /\ PointerFree
    /\ ~reader.pending
    /\ reader' = Reading(currentContent, history, historyIndex)
    /\ UNCHANGED << currentContent, history, historyIndex, selectedElementId, dragRef,
                    styleProps, selectedTagName, transform, bbox, ovDrag, now,
                    clipboardRef, timers, profile, appVars, shadowProps, shadowTimer >>
    /\ lastOp' = Op("imageChosen", "")
    /\ undoFrom' = NoUndo

\* reader.onloadend: modifySvg of the render that started the read appends the
\* image to that render's text and hands it to that render's onUpdate.
ImageLoaded ==
    /\ reader.pending
    /\ reader' = NoRead
    /\ IF reader.content.kind = "svg"
       THEN /\ HandleUpdate(reader.history, reader.index,
                            AppendChild(reader.content, NewImage(reader.content, now)))
            /\ SetTimeout(ImgId(now))
       ELSE UNCHANGED << currentContent, history, historyIndex, timers >>
    /\ UNCHANGED selectedElementId
    /\ Effects(currentContent', selectedElementId, styleProps, transform, dragRef, ovDrag)
    /\ lastOp' = Op("imageLoaded", "")
    /\ undoFrom' = NoUndo
    /\ UNCHANGED << profile, appVars, now, clipboardRef, shadowTimer >>

\* A gradient element of defs: its id, its kind and its stops in order.
Stop(offset, color) == [offset |-> offset, color |-> color]

Gradient(id, kind, stops) == [id |-> id, kind |-> kind, stops |-> stops]

\* `grad-${Date.now()}`
GradId(t) == "grad-" \o Stamp(t)

\* The callback of applyGradient(type, start, end) for the selection sel at time t:
\* a defs element is put first when there is none; if the selected element exists,
\* its inline fill is removed, a gradient with stops at 0% and 100% is appended to
\* defs, and the fill attribute refers to it.
WithGradient(doc, sel, type, start, end, t) ==
    LET i == GetElementById(doc, sel)
        d == IF doc.hasDefs THEN doc ELSE [doc EXCEPT !.hasDefs = TRUE, !.defsAt = 0]
    IN  IF i = 0 THEN d
        ELSE [d EXCEPT !.grads = Append(@, Gradient(GradId(t), type,
                                            << Stop(0, start), Stop(100, end) >>)),
                       !.nodes[i].styleFill = NoPaint,
                       !.nodes[i].fill = Url(GradId(t))]

\* applyGradient(type, start, end): the Linear and Radial buttons and the two
\* colour inputs of the fill section.
ApplyGradient ==
    \E type \in {"linear", "radial"}, start \in profile.colors, end \in profile.colors :
        /\ PointerFree
        /\ IF selectedElementId # None
           THEN ModifySvg(WithGradient(currentContent, selectedElementId, type, start,
                                       end, now),
                          selectedElementId)
           ELSE /\ UNCHANGED << currentContent, history, historyIndex, selectedElementId >>
                /\ Effects(currentContent, selectedElementId, styleProps, transform,
                           dragRef, ovDrag)
        /\ lastOp' = Op("applyGradient", [type |-> type, start |-> start, end |-> end])
        /\ undoFrom' = NoUndo
        /\ UNCHANGED << profile, appVars, now, clipboardRef, timers, reader, shadowTimer >>

\* The Solid button of the fill section: setFillType('solid') and
\* updateStyle('fill', '#000000').
SetSolid ==
    /\ PointerFree
    /\ selectedElementId # None
    /\ IF currentContent.kind = "svg"
       THEN HandleUpdate(history, historyIndex,
                StyledDoc(currentContent, selectedElementId, "fill", "#000000",
                          NewProps("fill", "#000000")))
       ELSE UNCHANGED << currentContent, history, historyIndex >>
    /\ Effects(currentContent', selectedElementId, NewProps("fill", "#000000"),
               transform, dragRef, ovDrag)
    /\ UNCHANGED selectedElementId
    /\ lastOp' = Op("setSolid", "")
    /\ undoFrom' = NoUndo
    /\ UNCHANGED << profile, appVars, now, clipboardRef, timers, reader, shadowTimer >>

\* The gradients of a document with the given id, in document order.
GradsWithId(doc, id) == SelectSeq(doc.grads, LAMBDA g : g.id = id)

\* doc.getElementById(id) seen from the sync effect: the first element with the id
\* in document order, a paintable node or a gradient of defs.
FirstById(doc, id) ==
    LET i == GetElementById(doc, id)
        g == GradsWithId(doc, id)
    IN  IF i > 0 /\ (g = << >> \/ i <= doc.defsAt) THEN [found |-> TRUE, kind |-> "", stops |-> << >>]
        ELSE IF g # << >> THEN [found |-> TRUE, kind |-> g[1].kind, stops |-> g[1].stops]
        ELSE [found |-> FALSE, kind |-> "", stops |-> << >>]

\* What the sync effect of the panel reads back from the fill of element n: the
\* fill type and the gradient colours (prev when the effect leaves them alone).
ReadFill(doc, n, prev) ==
    LET fillVal == FillVal(n)
        gradEl  == FirstById(doc, fillVal.v)
    IN  IF fillVal.k = "url" /\ gradEl.found
        THEN [fillType |-> IF gradEl.kind = "radial" THEN "radial" ELSE "linear",
              start |-> IF Len(gradEl.stops) >= 2 THEN gradEl.stops[1].color ELSE prev.start,
              end |-> IF Len(gradEl.stops) >= 2
                      THEN gradEl.stops[Len(gradEl.stops)].color ELSE prev.end]
        ELSE [fillType |-> "solid", start |-> prev.start, end |-> prev.end]

\* useState({ start: '#000000', end: '#ffffff' })
GradientPropsInit == [start |-> "#000000", end |-> "#ffffff"]

\* The timer of duplicateLayer, addShape or handleImageUpload fires.
TimerFires ==
    /\ timers # << >>
    /\ timers' = Tail(timers)
    /\ selectedElementId' = Head(timers)
    /\ UNCHANGED << currentContent, history, historyIndex >>
    /\ Effects(currentContent, Head(timers), styleProps, transform, dragRef, ovDrag)
    /\ lastOp' = Op("timer", "")
    /\ undoFrom' = NoUndo
    /\ UNCHANGED << profile, appVars, now, clipboardRef, reader, shadowTimer >>

\* ------------------------------------------------------------------ behaviours
Next ==
    \/ Load
    \/ Undo
    \/ Redo
    \/ SelectLayer
    \/ Escape
    \/ DeleteKey
    \/ UpdateStyle
    \/ HandleMouseDown
    \/ HandleMouseMove
    \/ HandleMouseUp
    \/ HandleDragStart
    \/ HandleMove
    \/ HandleUp

Spec == Init /\ [][Next]_vars

SpecTransform == InitTransform /\ [][Next]_vars

SpecMove == InitMove /\ [][Next]_vars

SpecFlip == InitFlip /\ [][Next]_vars

\* Replacements of the text from outside: generated graphics and the code panel.
NextNormalize ==
    \/ Load
    \/ Tick
    \/ CodeEdit
    \/ Undo
    \/ Redo
    \/ SelectLayer
    \/ HandleMouseDown
    \/ HandleMouseMove
    \/ HandleMouseUp

SpecNormalize == InitNormalize /\ [][NextNormalize]_vars

\* Editing the layers that exist: the keys and the buttons of the layer panel, on
\* a log that only grows (Spec explores undo and redo).
NextEdit ==
    \/ Load
    \/ Tick
    \/ SelectLayer
    \/ Escape
    \/ DeleteKey
    \/ CopyKey
    \/ CutKey
    \/ DuplicateKey
    \/ PasteKey
    \/ DeleteLayer
    \/ DuplicateLayer
    \/ MoveLayer
    \/ TimerFires

SpecEdit == InitEdit /\ [][NextEdit]_vars

SpecPaste == InitPaste /\ [][NextEdit]_vars

\* Creating content: the assets tab and the fill section.
NextCreate ==
    \/ Load
    \/ Tick
    \/ Undo
    \/ Redo
    \/ SelectLayer
    \/ AddShape
    \/ ImageChosen
    \/ ImageLoaded
    \/ ApplyGradient
    \/ MoveLayer
    \/ TimerFires

SpecCreate == InitCreate /\ [][NextCreate]_vars

\* The steps explored when alignment and the generated shapes are examined.
NextArrange ==
    \/ Load
    \/ Tick
    \/ Undo
    \/ Redo
    \/ SelectLayer
    \/ Escape
    \/ AlignLayer
    \/ AddShape
    \/ TimerFires

SpecArrange == InitArrange /\ [][NextArrange]_vars

\* The steps explored when the background rectangle is examined.
NextCanvas ==
    \/ Load
    \/ Tick
    \/ SelectLayer
    \/ Escape
    \/ DeleteKey
    \/ CopyKey
    \/ CutKey
    \/ DuplicateKey
    \/ PasteKey
    \/ DuplicateLayer
    \/ AddShape
    \/ UpdateCanvas
    \/ HandleMouseDown
    \/ HandleMouseMove
    \/ HandleMouseUp
    \/ TimerFires

SpecCanvas == InitCanvas /\ [][NextCanvas]_vars

\* The steps explored when the style tab is examined.
NextStyle ==
    \/ Load
    \/ Undo
    \/ Redo
    \/ SelectLayer
    \/ Escape
    \/ UpdateStyle
    \/ UpdateShadow
    \/ ShadowTimerFires
    \/ HandleDragStart
    \/ HandleMove
    \/ HandleUp

SpecPaint == InitPaint /\ [][NextStyle]_vars

SpecFilter == InitFilter /\ [][NextStyle]_vars

SpecOrder == InitOrder /\ [][NextStyle]_vars

SpecReload == InitReload /\ [][Next]_vars

SpecRound == InitRound /\ [][NextArrange]_vars

\* The steps explored when the fill section is examined.
NextSolid ==
    \/ Load
    \/ Tick
    \/ Undo
    \/ Redo
    \/ SelectLayer
    \/ UpdateStyle
    \/ ApplyGradient
    \/ SetSolid

SpecSolid == InitSolid /\ [][NextSolid]_vars

\* The steps explored when the paint order of the background is examined.
NextLayers ==
    \/ Load
    \/ Tick
    \/ SelectLayer
    \/ CopyKey
    \/ PasteKey
    \/ DuplicateKey
    \/ DuplicateLayer
    \/ MoveLayer
    \/ AddShape
    \/ UpdateCanvas
    \/ TimerFires

SpecLayers == InitCanvas /\ [][NextLayers]_vars

\* No element of the document and no element on the clipboard lies further than
\* MaxPos from the origin (copies of copies would move away without end).
WithinReach(doc, clip) ==
    /\ \A i \in 1..Len(doc.nodes) :
          doc.nodes[i].px <= MaxPos /\ doc.nodes[i].shift * CloneOffset <= MaxPos
    /\ clip.el.px <= MaxPos /\ clip.el.shift * CloneOffset <= MaxPos

\* Ctrl+D and Ctrl+V, as long as the clone stays within reach.
DuplicateNear == DuplicateKey /\ WithinReach(currentContent', clipboardRef')

PasteNear == PasteKey /\ WithinReach(currentContent', clipboardRef')

\* The steps explored when gradients meet the clipboard and the log.
NextGradient ==
    \/ Load
    \/ Tick
    \/ Undo
    \/ Redo
    \/ SelectLayer
    \/ ApplyGradient
    \/ DeleteKey
    \/ CopyKey
    \/ CutKey
    \/ DuplicateNear
    \/ PasteNear

SpecGradient == InitGradient /\ [][NextGradient]_vars

\* ---------------------------------------------------------------------- claims
\* A document has been loaded: the log was created.
Loaded == Len(history) > 0

\* The handler that ran last called handleUpdate.
IsCommit(o) ==
    \/ o.op \in {"updateStyle", "handleup"}
    \/ o = Op("delete", "removed")
    \/ o = Op("mouseup", "commit")

\* C1: once a document is loaded, the history index stays within the log,
\* 0 <= index <= length(log) - 1, whatever commits, undos and redos run.
C1_IndexInBounds ==
    Loaded => (0 <= historyIndex /\ historyIndex <= Len(history) - 1)

\* A redo has just moved the index up a log of three entries.
C1_Witness ==
    lastOp = Op("redo", "moved") /\ Len(history) >= 3 /\ historyIndex >= 1

\* C2: a commit made while later entries exist (after undos) drops every entry
\* after the current index and appends the committed text, which is then the last
\* entry, so that redo has nothing to move to.
C2_BranchTruncation ==
    [][ (IsCommit(lastOp') /\ CanRedo) =>
            /\ history' = Append(SubSeq(history, 1, historyIndex + 1), currentContent')
            /\ historyIndex' = Len(history') - 1 ]_vars

\* C3: a successful undo immediately followed by redo brings back the text and
\* the index that were current before the undo.
C3_UndoRedoRestores ==
    (lastOp = Op("redo", "moved") /\ undoFrom.set) =>
        (currentContent = undoFrom.content /\ historyIndex = undoFrom.index)

\* Redo has just followed an undo that changed the text.
C3_Witness ==
    /\ lastOp = Op("redo", "moved")
    /\ undoFrom.set
    /\ historyIndex > 0
    /\ currentContent # JsIndex(history, historyIndex - 1)

\* C4: once a document is loaded, the text the editor shows is log[index].
C4_ContentIsLogEntry ==
    Loaded => currentContent = JsIndex(history, historyIndex)

\* An undo has just replaced the text by an earlier, different entry.
C4_Witness ==
    /\ lastOp = Op("undo", "moved")
    /\ currentContent # JsIndex(history, historyIndex + 1)

\* C5: undo at index 0 and redo at the last index change neither the log, the
\* index, the text nor the selection.
C5_OutOfRangeNoOp ==
    [][ ( \/ (lastOp'.op = "undo" /\ historyIndex = 0)
          \/ (lastOp'.op = "redo" /\ historyIndex >= Len(history) - 1) ) =>
            UNCHANGED << history, historyIndex, currentContent, selectedElementId >> ]_vars

\* Undo was pressed at index 0 of a log with later entries, a node being selected.
C5_Witness ==
    /\ lastOp = Op("undo", "noop")
    /\ Len(history) > 1
    /\ historyIndex = 0
    /\ selectedElementId # None

\* C8: a property change aimed at a node id that the document no longer holds
\* leaves the text, the log and the index as they were.
C8_StaleEditNoOp ==
    [][ (lastOp'.op = "updateStyle" /\ ~HasNode(currentContent, selectedElementId)) =>
            UNCHANGED << currentContent, history, historyIndex >> ]_vars

\* The log after one commit of text c made from log h at index i.
Committed(h, i, c) == Append(SubSeq(h, 1, i + 1), c)

\* C6: during a transform-handle gesture no pointer-move touches the text, the log
\* or the index; the pointer-up makes exactly one commit, of the document as the
\* last move left it, and ends the gesture; with no gesture running a pointer-move
\* changes nothing and no handle move is delivered.
C6_HandleGestureOneCommit ==
    [][ /\ (lastOp'.op = "handlemove") =>
              /\ ovDrag.active /\ ovDrag'.active
              /\ UNCHANGED << currentContent, history, historyIndex >>
        /\ (lastOp'.op = "handleup") =>
              /\ ovDrag.active
              /\ history' = Committed(history, historyIndex, ovDrag.svg)
              /\ historyIndex' = Len(history') - 1
              /\ currentContent' = ovDrag.svg
              /\ ~ovDrag'.active
        /\ (lastOp'.op = "mousemove" /\ ~dragRef.isDragging) =>
              UNCHANGED << currentContent, history, historyIndex, dragRef, ovDrag,
                           transform, selectedElementId >> ]_vars

\* A handle gesture with a move has just ended: the log grew by the dragged document.
C6_Witness ==
    /\ lastOp.op = "handleup"
    /\ ~ovDrag.active
    /\ Len(history) = 2
    /\ historyIndex = 1
    /\ history[2] # history[1]
    /\ currentContent = history[2]

\* The tag of node id in a document, "" when the document has no such node.
TagOf(doc, id) == IF HasNode(doc, id) THEN NodeOf(doc, id).tag ELSE ""

\* Two documents differ at most in the position of node id.
SameButPosition(d1, d2, id) ==
    /\ Len(d1.nodes) = Len(d2.nodes)
    /\ \A i \in 1..Len(d1.nodes) :
          IF d1.nodes[i].id = id
          THEN [d2.nodes[i] EXCEPT !.px = d1.nodes[i].px, !.py = d1.nodes[i].py] = d1.nodes[i]
          ELSE d2.nodes[i] = d1.nodes[i]

\* C7: a primary-button pointer-down on a node starts a drag exactly when the node
\* is a rect, image, text, circle or ellipse (never on a polygon or a path); a move
\* of a running drag writes only the position of the dragged node in the live
\* document and leaves the text, the log and the index alone; the release of a
\* drag makes exactly one commit, of the live document, and a release with no drag
\* running changes neither the text nor the log.
C7_DirectMoveOneCommit ==
    [][ /\ (lastOp'.op = "mousedown" /\ lastOp'.arg \in {"drag", "select"}) =>
              /\ dragRef'.isDragging <=>
                    TagOf(currentContent, selectedElementId')
                        \in {"rect", "image", "text", "circle", "ellipse"}
              /\ TagOf(currentContent, selectedElementId') \in {"polygon", "path"}
                    => ~dragRef'.isDragging
              /\ UNCHANGED << currentContent, history, historyIndex >>
        /\ (lastOp'.op = "mousemove") =>
              /\ UNCHANGED << currentContent, history, historyIndex >>
              /\ dragRef.isDragging =>
                    /\ dragRef'.isDragging
                    /\ SameButPosition(dragRef.svg, dragRef'.svg, dragRef.el)
        /\ (lastOp'.op = "mouseup" /\ dragRef.isDragging) =>
              /\ history' = Committed(history, historyIndex, LiveDom)
              /\ historyIndex' = Len(history') - 1
              /\ currentContent' = LiveDom
              /\ ~dragRef'.isDragging
        /\ (lastOp'.op = "mouseup" /\ ~dragRef.isDragging) =>
              UNCHANGED << currentContent, history, historyIndex, dragRef >> ]_vars

\* A drag that moved its node has just been released and committed.
C7_Witness ==
    /\ lastOp = Op("mouseup", "commit")
    /\ Len(history) = 2
    /\ historyIndex = 1
    /\ history[2] # history[1]
    /\ SameButPosition(history[1], history[2], selectedElementId)

\* The function names of a transform list.
FnNames(tr) == [i \in 1..Len(tr) |-> tr[i].fn]

\* Position of a function name in the fixed order.
Rank(name) ==
    CASE name = "rotate" -> 1
      [] name = "scale"  -> 2
      [] name = "skewX"  -> 3
      [] name = "skewY"  -> 4
      [] OTHER           -> 0

\* A transform list that starts rotate, scale and lists skewX, skewY after them,
\* each function once and in that order.
InFixedOrder(tr) ==
    /\ Len(tr) >= 2
    /\ \A i \in 1..Len(tr) : Rank(tr[i].fn) > 0
    /\ \A i \in 1..Len(tr), j \in 1..Len(tr) : i < j => Rank(tr[i].fn) < Rank(tr[j].fn)
    /\ tr[1].fn = "rotate" /\ tr[2].fn = "scale"

\* C9: whenever a panel edit of rotate, scale, flipX or flipY or a handle move
\* writes the transform of a node, and whenever a handle gesture with a move
\* commits, the node's transform lists its functions in the order rotate, scale,
\* skewX, skewY.
C9_TransformOrder ==
    [][ /\ (lastOp'.op = "updateStyle"
              /\ lastOp'.arg \in {"rotate", "scale", "flipX", "flipY"}
              /\ HasNode(currentContent', selectedElementId)) =>
                 InFixedOrder(NodeOf(currentContent', selectedElementId).tr)
        /\ (lastOp'.op = "handlemove") =>
                 InFixedOrder(NodeOf(ovDrag'.svg, ovDrag.el).tr)
        /\ (lastOp'.op = "handleup" /\ lastOp.op = "handlemove") =>
                 InFixedOrder(NodeOf(currentContent', ovDrag.el).tr) ]_vars

\* A handle move with the modifier key has been committed on a node that a panel
\* edit had written before: all four functions are listed.
C9_Witness ==
    /\ lastOp.op = "handleup"
    /\ HasNode(currentContent, selectedElementId)
    /\ FnNames(NodeOf(currentContent, selectedElementId).tr)
          = << "rotate", "scale", "skewX", "skewY" >>
    /\ NodeOf(currentContent, selectedElementId).tr # NodeOf(history[1], selectedElementId).tr
    /\ NodeOf(currentContent, selectedElementId).tr[3].args # NodeOf(history[1], selectedElementId).tr[Len(NodeOf(history[1], selectedElementId).tr)].args

Sign(n) == IF n < 0 THEN -1 ELSE 1

\* C10: a panel edit of rotate, scale, flipX or flipY keeps every other channel of
\* the node's transform: both skews, the rotation unless rotate was edited, the
\* scale magnitudes of both axes unless scale was edited, and the sign of each
\* axis unless its flip was edited.
C10_PanelKeepsChannels ==
    [][ (lastOp'.op = "updateStyle"
           /\ lastOp'.arg \in {"rotate", "scale", "flipX", "flipY"}
           /\ HasNode(currentContent, selectedElementId)) =>
          LET old == ParseTransform(NodeOf(currentContent, selectedElementId).tr)
              new == ParseTransform(NodeOf(currentContent', selectedElementId).tr)
          IN  /\ new.skewX = old.skewX
              /\ new.skewY = old.skewY
              /\ lastOp'.arg # "rotate" => new.rotate = old.rotate
              /\ lastOp'.arg # "scale" =>
                    /\ Abs(new.scaleX) = Abs(old.scaleX)
                    /\ Abs(new.scaleY) = Abs(old.scaleY)
              /\ lastOp'.arg # "flipX" => Sign(new.scaleX) = Sign(old.scaleX)
              /\ lastOp'.arg # "flipY" => Sign(new.scaleY) = Sign(old.scaleY) ]_vars


\* The clock values of a run.
Clock == 0..profile.maxClock

\* C11: normalizing a text that normalization produced changes nothing: after a
\* generated graphic is loaded, normalizeSvg at any time returns the current text.
C11_NormalizeIdempotent ==
    lastOp.op = "load" => \A t \in Clock : NormalizeSvg(currentContent, t) = currentContent

\* A load whose text normalization changed (ids, namespace or sizes were added).
C11_Witness ==
    /\ lastOp.op = "load"
    /\ currentContent.kind = "svg"
    /\ currentContent # lastOp.text
    /\ \E i \in 1..Len(currentContent.nodes) : lastOp.text.nodes[i].id = ""

\* The ids of the paintable nodes of a document are non-empty and pairwise distinct.
UniqueIds(doc) ==
    /\ \A i \in 1..Len(doc.nodes) : doc.nodes[i].id # ""
    /\ \A i, j \in 1..Len(doc.nodes) : i # j => doc.nodes[i].id # doc.nodes[j].id

\* C12: after normalization every paintable node has a non-empty id and no two
\* nodes share one, whatever ids the input carried.
C12_NormalizedIdsUnique ==
    (lastOp.op = "load" /\ currentContent.kind = "svg") => UniqueIds(currentContent)

\* C13: every replacement of the text from outside (a generated graphic, an edit in
\* the code panel) is normalized before it becomes current and enters the log.
C13_ReplacementsNormalized ==
    lastOp.op \in {"load", "codeedit"} =>
        /\ \E t \in Clock : currentContent = NormalizeSvg(lastOp.text, t)
        /\ JsIndex(history, historyIndex) = currentContent

\* C14: a text that fails to parse, or has no svg element, becomes the current text
\* and the only log entry exactly as it was handed in.
C14_ParseFailureUnchanged ==
    (lastOp.op = "load" /\ lastOp.text.kind \in {"malformed", "nosvg"}) =>
        /\ currentContent = lastOp.text
        /\ history = << lastOp.text >>

\* A malformed text with elements was loaded and is the current text.
C14_Witness ==
    /\ lastOp.op = "load"
    /\ lastOp.text.kind = "malformed"
    /\ lastOp.text.nodes # << >>
    /\ currentContent = lastOp.text


\* The ids in use on the paintable nodes of a document.
Ids(doc) == {doc.nodes[k].id : k \in 1..Len(doc.nodes)}

\* d2 is d1 with one element more, at position i + 1, and nothing else changed.
InsertedAt(d1, d2, i) ==
    /\ Len(d2.nodes) = Len(d1.nodes) + 1
    /\ \A k \in 1..i : d2.nodes[k] = d1.nodes[k]
    /\ \A k \in (i + 1)..Len(d1.nodes) : d2.nodes[k + 1] = d1.nodes[k]
    /\ [d2 EXCEPT !.nodes = d1.nodes] = d1

\* c is n again but for its id and its position.
CloneOf(c, n) ==
    [c EXCEPT !.id = n.id, !.px = n.px, !.py = n.py, !.shift = n.shift] = n

\* The step is a duplicate of an existing element, by the key or by the layer row.
IsDuplicate ==
    \/ lastOp'.op = "duplicate" /\ lastOp'.arg = "cloned"
    \/ lastOp'.op = "duplicateLayer" /\ HasNode(currentContent, lastOp'.arg)

\* The id of the element a duplicate step copies.
DuplicateOf == IF lastOp'.op = "duplicate" THEN selectedElementId ELSE lastOp'.arg

\* C15: a duplicate, by the key or by the layer panel, inserts a clone right after
\* the original, with an id no element had, and a rect clone 10 further in x and y.
C15_DuplicateClonesWithOffset ==
    [][IsDuplicate =>
        LET i == GetElementById(currentContent, DuplicateOf)
            n == currentContent.nodes[i]
            c == currentContent'.nodes[i + 1]
        IN  /\ InsertedAt(currentContent, currentContent', i)
            /\ CloneOf(c, n)
            /\ c.id \notin Ids(currentContent)
            /\ n.tag = "rect" => (c.px = n.px + CloneOffset /\ c.py = n.py + CloneOffset)
      ]_vars

\* The log after exactly one commit of the text c on top of the entry at the index.
OneCommit(c) ==
    /\ history' = Append(SubSeq(history, 1, historyIndex + 1), c)
    /\ historyIndex' = historyIndex + 1
    /\ currentContent' = c

\* el moved by the fixed offset: x/y or cx/cy by 10, or one more translate(10, 10).
Shifted(c, el) ==
    IF el.tag \in {"rect", "image", "text", "use", "circle", "ellipse"}
    THEN c.px = el.px + CloneOffset /\ c.py = el.py + CloneOffset /\ c.shift = el.shift
    ELSE c.px = el.px /\ c.py = el.py /\ c.shift = el.shift + 1

\* C16: every paste appends a clone of the clipboard's element as the last child,
\* with an id no element had and the fixed offset, commits once and leaves the
\* clipboard alone; a paste with an empty clipboard changes neither text nor log.
C16_PasteAppendsFreshClone ==
    [][/\ (lastOp'.op = "paste" /\ lastOp'.arg = "pasted") =>
            LET c == currentContent'.nodes[Len(currentContent'.nodes)]
            IN  /\ InsertedAt(currentContent, currentContent', Len(currentContent.nodes))
                /\ CloneOf(c, clipboardRef.el)
                /\ Shifted(c, clipboardRef.el)
                /\ c.id \notin Ids(currentContent)
                /\ OneCommit(currentContent')
                /\ clipboardRef' = clipboardRef
       /\ (lastOp'.op = "paste" /\ ~clipboardRef.full) =>
            UNCHANGED << currentContent, history, historyIndex, clipboardRef >>
      ]_vars

\* The step deletes an existing element, by the key or by the layer row.
IsDelete ==
    \/ lastOp'.op = "delete" /\ lastOp'.arg = "removed"
    \/ lastOp'.op = "deleteLayer" /\ HasNode(currentContent, lastOp'.arg)

\* The id of the element a delete step removes.
Deleted == IF lastOp'.op = "delete" THEN selectedElementId ELSE lastOp'.arg

\* C17: a delete removes the element and nothing else; the selection is cleared if
\* it was that id and is left as it was otherwise.
C17_DeleteClearsOwnSelection ==
    [][IsDelete =>
        /\ InsertedAt(currentContent', currentContent,
                      GetElementById(currentContent, Deleted) - 1)
        /\ selectedElementId' = IF selectedElementId = Deleted THEN None
                                ELSE selectedElementId
      ]_vars

\* A layer row's delete removed an element while another, surviving, element was
\* and stays selected.
C17_Witness ==
    /\ lastOp.op = "deleteLayer"
    /\ ~HasNode(currentContent, lastOp.arg)
    /\ selectedElementId # None
    /\ HasNode(currentContent, selectedElementId)
    /\ Len(currentContent.nodes) = 2

\* C18: creating a shape or an image appends it as the last child with an id no
\* element used, and leaves the elements that were there, and their order, alone.
C18_CreateAppendsFresh ==
    [][/\ (lastOp'.op = "addShape" /\ currentContent.kind = "svg") =>
            /\ InsertedAt(currentContent, currentContent', Len(currentContent.nodes))
            /\ currentContent'.nodes[Len(currentContent'.nodes)].id \notin Ids(currentContent)
       /\ (lastOp'.op = "imageLoaded" /\ reader.content.kind = "svg") =>
            /\ InsertedAt(currentContent, currentContent', Len(currentContent.nodes))
            /\ currentContent'.nodes[Len(currentContent'.nodes)].id \notin Ids(currentContent)
      ]_vars

\* d2 is d1 with the elements at positions i and i + 1 exchanged.
Exchanged(d1, d2, i) ==
    /\ Len(d2.nodes) = Len(d1.nodes)
    /\ d2.nodes[i] = d1.nodes[i + 1]
    /\ d2.nodes[i + 1] = d1.nodes[i]
    /\ \A k \in 1..Len(d1.nodes) : k \notin {i, i + 1} => d2.nodes[k] = d1.nodes[k]

\* C19: moving a layer up exchanges it with its next sibling, down with its
\* previous one; at the top or the bottom the move changes neither text nor log.
C19_MoveSwapsOrNoOp ==
    [][(lastOp'.op \in {"moveUp", "moveDown"} /\ HasNode(currentContent, lastOp'.arg)) =>
        LET i == GetElementById(currentContent, lastOp'.arg)
            j == IF lastOp'.op = "moveUp" THEN i ELSE i - 1
        IN  IF 1 <= j /\ j < Len(currentContent.nodes)
            THEN Exchanged(currentContent, currentContent', j)
            ELSE UNCHANGED << currentContent, history, historyIndex >>
      ]_vars

\* C20: after a gradient is applied to the selected element, its fill reads back as
\* a reference to a gradient of the requested kind whose stops are the start colour
\* at 0% and the end colour at 100%, and no inline fill hides the reference.
C20_GradientReadsBack ==
    [][(lastOp'.op = "applyGradient" /\ currentContent.kind = "svg"
            /\ HasNode(currentContent, selectedElementId)) =>
        LET n == NodeOf(currentContent', selectedElementId)
            g == FirstById(currentContent', FillVal(n).v)
        IN  /\ n.styleFill = NoPaint
            /\ FillVal(n).k = "url"
            /\ g.found
            /\ g.kind = lastOp'.arg.type
            /\ g.stops = << Stop(0, lastOp'.arg.start), Stop(100, lastOp'.arg.end) >>
            /\ ReadFill(currentContent', n, GradientPropsInit) =
                   [fillType |-> lastOp'.arg.type, start |-> lastOp'.arg.start,
                    end |-> lastOp'.arg.end]
      ]_vars

\* C24: a commit never loses an entry at or before the index that is current at
\* the moment of the commit, the pointer-up of a transform gesture included, even
\* when other operations changed the log or the index while the button was held.
C24_CommitKeepsPast ==
    [][ (IsCommit(lastOp') /\ Loaded) =>
            /\ Len(history') >= historyIndex + 1
            /\ SubSeq(history', 1, historyIndex + 1) =
                   SubSeq(history, 1, historyIndex + 1) ]_vars

\* C26: a flip is a sign inversion: one toggle of flipX (flipY) in the panel negates
\* the sign of scaleX (scaleY) of the selected node and leaves the other axis'
\* sign and both magnitudes as they were, so that two toggles of the same flip, the
\* panel being re-derived after each, bring the original transform back.
C26_FlipNegatesOneSign ==
    [][ (lastOp'.op = "updateStyle" /\ lastOp'.arg \in {"flipX", "flipY"}
           /\ HasNode(currentContent, selectedElementId)) =>
          LET old == ParseTransform(NodeOf(currentContent, selectedElementId).tr)
              new == ParseTransform(NodeOf(currentContent', selectedElementId).tr)
          IN  /\ Abs(new.scaleX) = Abs(old.scaleX)
              /\ Abs(new.scaleY) = Abs(old.scaleY)
              /\ Sign(new.scaleX) =
                    IF lastOp'.arg = "flipX" THEN 0 - Sign(old.scaleX) ELSE Sign(old.scaleX)
              /\ Sign(new.scaleY) =
                    IF lastOp'.arg = "flipY" THEN 0 - Sign(old.scaleY) ELSE Sign(old.scaleY)
      ]_vars

\* C27: the selection, when it is not none, names a node of the current document,
\* after any creation, duplication, deletion, cut, paste, undo, redo or load, and
\* after the deferred selection that follows a creation or a duplication.
C27_SelectionNamesNode ==
    (Loaded /\ selectedElementId # None) =>
        (currentContent.kind = "svg" /\ HasNode(currentContent, selectedElementId))

\* C28: starting from a normalized document, the ids of its nodes stay pairwise
\* distinct after any creation of a shape or an image, duplication, copy, cut or
\* paste, a paste of a node whose original remains and nodes created at the same
\* clock reading included.
C28_IdsStayDistinct ==
    (Loaded /\ currentContent.kind = "svg") => UniqueIds(currentContent)

\* C21: aligning a rect or an image of width w and height h on a canvas of width
\* W and height H sets x = 0 for left, x = (W - w) / 2 for center, x = W - w for
\* right, y = 0 for top, y = (H - h) / 2 for middle and y = H - h for bottom, and
\* leaves the other coordinate as it was.
C21_AlignSetsOneCoordinate ==
    [][(lastOp'.op = "align" /\ HasNode(currentContent, selectedElementId)
            /\ NodeOf(currentContent, selectedElementId).tag \in {"rect", "image"}) =>
        LET n == NodeOf(currentContent, selectedElementId)
            m == NodeOf(currentContent', selectedElementId)
            W == CanvasProps(currentContent).width
            H == CanvasProps(currentContent).height
            a == lastOp'.arg
        IN  /\ m.px = CASE a = "left" -> 0
                        [] a = "center" -> (W - n.w) \div 2
                        [] a = "right" -> W - n.w
                        [] OTHER -> n.px
            /\ m.py = CASE a = "top" -> 0
                        [] a = "middle" -> (H - n.h) \div 2
                        [] a = "bottom" -> H - n.h
                        [] OTHER -> n.py
      ]_vars

\* C22: a generated star is a polygon of exactly 10 vertices around the canvas
\* centre; the vertices at even positions, the first of which points up, lie at
\* the outer radius size / 2 and those at odd positions at the inner radius
\* size / 5, where size is one fifth of the smaller side of the canvas.
C22_StarTenVertices ==
    [][(lastOp'.op = "addShape" /\ lastOp'.arg = "star" /\ currentContent.kind = "svg") =>
        LET star == currentContent'.nodes[Len(currentContent'.nodes)]
            W == CanvasProps(currentContent).width
            H == CanvasProps(currentContent).height
        IN  /\ star.tag = "polygon"
            /\ Len(star.points) = 10
            /\ star.points[1].deg = -90
            /\ \A k \in 1..Len(star.points) :
                  LET v == star.points[k]
                  IN  /\ v.cx2 = W /\ v.cy2 = H
                      /\ v.deg = 36 * (k - 1) - 90
                      \* radius = (min(W, H) / 5) / 2 or (min(W, H) / 5) / 5
                      /\ v.num * 5 * (IF (k - 1) % 2 = 0 THEN 2 ELSE 5) = Min(W, H) * v.den
      ]_vars

C25_ShadowWritten ==
    [][ (lastOp'.op = "shadowTimer" /\ currentContent.kind = "svg"
         /\ HasNode(currentContent, selectedElementId))
        => LET fns == NodeOf(currentContent', selectedElementId).filter
           IN  IF shadowProps.enabled
               THEN /\ fns # << >>
                    /\ fns[Len(fns)] = DropShadow(shadowProps.x, shadowProps.y,
                                                  shadowProps.blur, shadowProps.color,
                                                  shadowProps.opacity, "rgba")
               ELSE \A i \in 1..Len(fns) : fns[i].fn # "drop-shadow" ]_vars

\* The transform fields as the editor re-reads them from element n: those of the
\* style panel and those of the overlay.
TransformRead(n) ==
    << PanelParse(n).rotate, PanelParse(n).scale, PanelParse(n).flipX,
       PanelParse(n).flipY, ParseTransform(StyleFns(n)) >>

\* C30: filter edits and transform edits are independent: an edit of a filter
\* parameter or of the shadow leaves the transform of the selected element, as
\* the editor re-reads it, unchanged, and an edit of a transform channel (in the
\* panel or with the overlay) leaves the element's filter chain unchanged.
C30_FilterTransformIndependent ==
    [][ (currentContent.kind = "svg" /\ HasNode(currentContent, selectedElementId)
         /\ currentContent'.kind = "svg" /\ HasNode(currentContent', selectedElementId))
        => LET n == NodeOf(currentContent, selectedElementId)
               m == NodeOf(currentContent', selectedElementId)
           IN  /\ (\/ lastOp'.op = "updateStyle" /\ lastOp'.arg \in FilterKeys
                   \/ lastOp'.op = "shadowTimer")
                  => TransformRead(m) = TransformRead(n)
               /\ (lastOp'.op = "updateStyle"
                   /\ lastOp'.arg \in {"rotate", "scale", "flipX", "flipY"})
                  => m.filter = n.filter ]_vars

\* The defaults the sync effect passes to getVal.
PaintDefault(key) ==
    CASE key = "stroke" -> "none"
      [] key = "stroke-width" -> "1"
      [] key = "stroke-dasharray" -> "none"
      [] key = "font-size" -> "16"
      [] OTHER -> "#000000"

FilterRank(fn) ==
    CASE fn = "blur" -> 1
      [] fn = "grayscale" -> 2
      [] fn = "sepia" -> 3
      [] fn = "invert" -> 4
      [] fn = "saturate" -> 5
      [] fn = "hue-rotate" -> 6
      [] fn = "drop-shadow" -> 7
      [] OTHER -> 0

HasFilterFn(fns, name) == \E i \in 1..Len(fns) : fns[i].fn = name

\* C31: after any filter edit the filter declaration of the edited element lists
\* its functions in the order blur, grayscale, sepia, invert, saturate,
\* hue-rotate, drop-shadow; each of the first six is there exactly when its
\* current value differs from its neutral default; and when none of them is
\* there and the shadow is off, the element has no filter declaration.
C31_FilterOrder ==
    [][ (/\ \/ lastOp'.op = "updateStyle" /\ lastOp'.arg \in FilterKeys
            \/ lastOp'.op = "shadowTimer"
         /\ currentContent.kind = "svg" /\ HasNode(currentContent, selectedElementId)
         /\ currentContent'.kind = "svg" /\ HasNode(currentContent', selectedElementId))
        => LET fns == NodeOf(currentContent', selectedElementId).filter
               p == styleProps'
           IN  /\ \A i \in 1..Len(fns) : FilterRank(fns[i].fn) > 0
               /\ \A i, j \in 1..Len(fns) :
                     i < j => FilterRank(fns[i].fn) < FilterRank(fns[j].fn)
               /\ HasFilterFn(fns, "blur") <=> p.blur # 0
               /\ HasFilterFn(fns, "grayscale") <=> p.grayscale # 0
               /\ HasFilterFn(fns, "sepia") <=> p.sepia # 0
               /\ HasFilterFn(fns, "invert") <=> p.invert # 0
               /\ HasFilterFn(fns, "saturate") <=> p.saturate # ScaleOne
               /\ HasFilterFn(fns, "hue-rotate") <=> p.hueRotate # 0
               /\ (/\ ~shadowProps.enabled
                   /\ \A i \in 1..Len(fns) : fns[i].fn = "drop-shadow")
                  => fns = << >> ]_vars

\* Every fill of the form url(#id) in the document, attribute or inline style,
\* names a gradient of the document.
NoDangling(doc) ==
    \A i \in 1..Len(doc.nodes) :
        /\ doc.nodes[i].fill.k = "url" => GradsWithId(doc, doc.nodes[i].fill.v) # << >>
        /\ doc.nodes[i].styleFill.k = "url"
              => GradsWithId(doc, doc.nodes[i].styleFill.v) # << >>

\* C32: after any sequence of gradient edits, copy, cut, paste, duplicate, delete,
\* undo, redo and loads of documents without dangling references, every fill of
\* the form url(#id) refers to a gradient present in the same document.
C32_NoDanglingFill ==
    currentContent.kind = "svg" => NoDangling(currentContent)

\* An angle normalized into [0, 360).
Norm360(a) == a % 360

\* C33: during a rotate-handle drag every pointer-move sets the rotation to the
\* start rotation plus the angle swept from the pointer-down position, normalized
\* into [0, 360), so that a move to the pointer-down position leaves the start
\* rotation; the rotation shown during the drag and the rotation committed at its
\* end are never negative and never 360 or more.
C33_RotateFromStart ==
    [][ /\ (lastOp'.op = "handlemove" /\ ovDrag.active /\ ovDrag.type = "rotate"
            /\ selectedElementId # None)
           => \E angle \in Angles :
                 /\ lastOp'.arg = ToString(angle)
                 /\ transform'.rotate = Norm360(ovDrag.startTransform.rotate + angle)
                 /\ transform'.rotate >= 0 /\ transform'.rotate < 360
        /\ (lastOp'.op = "handleup" /\ ovDrag.active /\ ovDrag.type = "rotate"
            /\ lastOp.op = "handlemove" /\ currentContent'.kind = "svg"
            /\ HasNode(currentContent', ovDrag.el))
           => LET r == ParseTransform(NodeOf(currentContent', ovDrag.el).tr).rotate
              IN  r >= 0 /\ r < 360 ]_vars

\* C34: a cut stores on the clipboard what a copy of the same element would
\* store, removes the element from the document, clears the selection and makes
\* exactly one commit; a copy overwrites the clipboard and changes neither the
\* document, nor the log, nor the selection.
C34_CutIsCopyThenDelete ==
    [][ /\ (lastOp'.op = "cut" /\ lastOp'.arg = "removed")
           => /\ clipboardRef' = [full |-> TRUE,
                                  el |-> NodeOf(currentContent, selectedElementId)]
              /\ InsertedAt(currentContent', currentContent,
                            GetElementById(currentContent, selectedElementId) - 1)
              /\ selectedElementId' = None
              /\ OneCommit(currentContent')
        /\ (lastOp'.op = "copy" /\ lastOp'.arg = "copied")
           => /\ clipboardRef' = [full |-> TRUE,
                                  el |-> NodeOf(currentContent, selectedElementId)]
              /\ UNCHANGED << currentContent, history, historyIndex, selectedElementId >>
      ]_vars

\* An element has been cut: the clipboard holds it, the document no longer has
\* it, nothing is selected and the log has grown by one entry.
C34_Witness ==
    /\ lastOp.op = "cut"
    /\ lastOp.arg = "removed"
    /\ clipboardRef.full
    /\ clipboardRef.el.id = "n2"
    /\ currentContent.kind = "svg"
    /\ ~HasNode(currentContent, "n2")
    /\ HasNode(currentContent, "n1")
    /\ selectedElementId = None
    /\ Len(history) = 2

\* C35: whenever the graphic shown is replaced by another generated graphic, the
\* log is reset to one entry, the normalized text of the new graphic, the index
\* is 0 and the selection is cleared; and until the next replacement no commit,
\* undo or redo brings back the log of the previous graphic: the log keeps the
\* loaded text as its first entry.
C35_LoadResetsLog ==
    [][ /\ lastOp'.op = "load"
           => /\ \E d \in profile.docs : currentContent' = NormalizeSvg(d, now)
              /\ history' = << currentContent' >>
              /\ historyIndex' = 0
              /\ selectedElementId' = None
        /\ (lastOp'.op # "load" /\ history # << >>)
           => /\ history' # << >>
              /\ history'[1] = history[1] ]_vars

\* C36: after any sequence of background colour changes, layer moves, creations,
\* duplications and pastes, the background rectangle, when the document has one,
\* is its first paintable element.
C36_BackgroundAtBottom ==
    (currentContent.kind = "svg" /\ HasNode(currentContent, Background))
        => currentContent.nodes[1].id = Background

\* C37: switching the fill of an element to solid clears any inline fill and
\* leaves the fill attribute at the value it was last set to; the switch writes
\* no fill colour.
C37_SolidKeepsAttribute ==
    [][ (lastOp'.op = "setSolid" /\ currentContent.kind = "svg"
         /\ HasNode(currentContent, selectedElementId))
        => LET n == NodeOf(currentContent, selectedElementId)
               m == NodeOf(currentContent', selectedElementId)
           IN  /\ m.styleFill = NoPaint
               /\ m.fill = n.fill ]_vars

\* C37, as the code has it: switching the fill of an element to solid writes the
\* colour #000000 to the fill attribute and to the inline fill, whatever the two
\* held (a colour, a gradient reference, nothing), leaves the rest of the element
\* and the other elements alone, and makes one commit; the fill read back is
\* #000000.
C37_SolidWritesBlack ==
    [][ (lastOp'.op = "setSolid" /\ currentContent.kind = "svg"
         /\ HasNode(currentContent, selectedElementId))
        => LET i == GetElementById(currentContent, selectedElementId)
               n == currentContent.nodes[i]
               m == currentContent'.nodes[i]
           IN  /\ m.fill = [k |-> "color", v |-> "#000000"]
               /\ m.styleFill = [k |-> "color", v |-> "#000000"]
               /\ FillVal(m) = [k |-> "color", v |-> "#000000"]
               /\ [m EXCEPT !.fill = n.fill, !.styleFill = n.styleFill,
                            !.hasStyle = n.hasStyle] = n
               /\ [currentContent' EXCEPT !.nodes[i] = n] = currentContent
               /\ OneCommit(currentContent') ]_vars

\* The Solid button has been pressed on an element whose fill referred to a
\* gradient: the fill is #000000 in the attribute and in the inline style.
C37_Witness ==
    /\ lastOp.op = "setSolid"
    /\ currentContent.kind = "svg"
    /\ HasNode(currentContent, selectedElementId)
    /\ NodeOf(currentContent, selectedElementId).fill = [k |-> "color", v |-> "#000000"]
    /\ NodeOf(currentContent, selectedElementId).styleFill = [k |-> "color", v |-> "#000000"]
    /\ historyIndex > 0
    /\ HasNode(history[historyIndex], selectedElementId)
    /\ NodeOf(history[historyIndex], selectedElementId).fill.k = "url"

\* C38: aligning a circle or an ellipse takes the box from the centre and the
\* radius or radii and moves the centre so that the chosen edge or centre of the
\* box lies on that of the canvas: with diameters w and h on a canvas of W by H,
\* cx = w / 2 for left, W / 2 for center, W - w / 2 for right and cy = h / 2 for
\* top, H / 2 for middle, H - h / 2 for bottom; the other coordinate stays.
C38_AlignRound ==
    [][(lastOp'.op = "align" /\ HasNode(currentContent, selectedElementId)
            /\ NodeOf(currentContent, selectedElementId).tag \in {"circle", "ellipse"}) =>
        LET n == NodeOf(currentContent, selectedElementId)
            m == NodeOf(currentContent', selectedElementId)
            W == CanvasProps(currentContent).width
            H == CanvasProps(currentContent).height
            w == n.w
            h == IF n.tag = "circle" THEN n.w ELSE n.h
            a == lastOp'.arg
        IN  /\ 2 * m.px = CASE a = "left" -> w
                            [] a = "center" -> W
                            [] a = "right" -> 2 * W - w
                            [] OTHER -> 2 * n.px
            /\ 2 * m.py = CASE a = "top" -> h
                            [] a = "middle" -> H
                            [] a = "bottom" -> 2 * H - h
                            [] OTHER -> 2 * n.py
      ]_vars

\* ---------------------------------------------------------------------------
\* The application shell: generation and refinement requests (App, InputSection).
\* The window is at least 768 pixels wide, so the branches that close the sidebar
\* do not run.  What the editor does when the graphic on show changes is the
\* action Load.
\* ---------------------------------------------------------------------------

Tabs == {"create", "history"}

\* The two tab buttons: setActiveTab('create'), setActiveTab('history').
SetActiveTab(tab) ==
    /\ activeTab # tab
    /\ activeTab' = tab
    /\ UNCHANGED << status, currentSvg, appHistory, error, pending, started >>
    /\ UNCHANGED previewVars

\* The Generate button (rendered on the create tab, disabled while the status is
\* LOADING) runs handleSubmit, which returns at once while the status is LOADING
\* and otherwise, the prompt or the image being there, calls handleGenerate.
HandleSubmit ==
    /\ activeTab = "create"
    /\ status # "LOADING"
    /\ started < MaxRequests
    /\ status' = "LOADING"
    /\ error' = ""
    /\ currentSvg' = NoSvg
    /\ started' = started + 1
    /\ pending' = pending \cup {Request(started + 1, "generate", NoSvg)}
    /\ UNCHANGED << appHistory, activeTab >>
    /\ UNCHANGED previewVars

\* The refine form is rendered while a graphic is on show; its submit button is
\* disabled while the status is LOADING, which also stops a submission by the
\* Enter key.  handleRefineSubmit calls handleRefine, which returns when there is
\* no graphic and otherwise calls the service with the graphic it holds.
HandleRefineSubmit ==
    /\ currentSvg # NoSvg
    /\ status # "LOADING"
    /\ started < MaxRequests
    /\ status' = "LOADING"
    /\ error' = ""
    /\ started' = started + 1
    /\ pending' = pending \cup {Request(started + 1, "refine", currentSvg)}
    /\ UNCHANGED << currentSvg, appHistory, activeTab >>
    /\ UNCHANGED previewVars

\* A click on an entry of the list of generated graphics, on the history tab.
HandleSelectHistory(svg) ==
    /\ activeTab = "history"
    /\ currentSvg' = svg
    /\ status' = "SUCCESS"
    /\ error' = ""
    /\ UNCHANGED << appHistory, pending, started, activeTab >>
    /\ UNCHANGED previewVars

\* The promise of a service call resolves: the rest of the try block of
\* handleGenerate or handleRefine runs.
Resolve(r) ==
    /\ r \in pending
    /\ pending' = pending \ {r}
    /\ LET newSvg == GeneratedSvg(r.seq, IF r.kind = "refine" THEN "refined" ELSE "generated")
       IN /\ appHistory' = << newSvg >> \o appHistory
          /\ currentSvg' = newSvg
    /\ status' = "SUCCESS"
    /\ UNCHANGED << error, started, activeTab >>
    /\ UNCHANGED previewVars

\* The promise rejects: the catch block runs.  handleRefine sets ERROR and then
\* SUCCESS in the same batch, so SUCCESS is what is kept.
Reject(r) ==
    /\ r \in pending
    /\ pending' = pending \ {r}
    /\ status' = IF r.kind = "refine" THEN "SUCCESS" ELSE "ERROR"
    /\ error' = IF r.kind = "refine" THEN "Refinement Failed" ELSE "Generation Failed"
    /\ UNCHANGED << currentSvg, appHistory, started, activeTab >>
    /\ UNCHANGED previewVars

Elements(seq) == {seq[i] : i \in 1..Len(seq)}

NextApp ==
    \/ \E tab \in Tabs : SetActiveTab(tab)
    \/ HandleSubmit
    \/ HandleRefineSubmit
    \/ \E svg \in Elements(appHistory) : HandleSelectHistory(svg)
    \/ \E r \in pending : Resolve(r)
    \/ \E r \in pending : Reject(r)

\* The shell starts as the editor does; no editor action is taken.
SpecApp == Init /\ [][NextApp]_vars

\* C39: at most one generation or refinement request is in flight at any time:
\* while a service call has not settled, no sequence of submit, refine and list
\* selections starts another.
C39_OneRequestInFlight == Cardinality(pending) <= 1

====
